---- MODULE Spec2Model ----
(***************************************************************************)
(* Registration bot: the OTP retrieval loop (test-main/utils.py), the      *)
(* option matcher and the repeated-select helpers (bot.py), and the sport  *)
(* preference loop of run_registration (bot.py).                           *)
(*                                                                         *)
(* Text is modelled as a sequence of one-character strings where the code  *)
(* works on characters (message bodies, option labels), and as a sequence  *)
(* of tokens where the code only tests containment of fixed fragments      *)
(* (senders, subjects).                                                    *)
(***************************************************************************)
EXTENDS Integers, Sequences, FiniteSets, TLC

\* Python's None, as a value comparable with the text sequences it stands in for
None == <<"None">>

Min(S) == CHOOSE x \in S : \A y \in S : x <= y

Reverse(s) == [i \in 1..Len(s) |-> s[Len(s) + 1 - i]]

RECURSIVE Flatten(_)
Flatten(ss) == IF ss = <<>> THEN <<>> ELSE Head(ss) \o Flatten(Tail(ss))

Repeat(x, n) == [i \in 1..n |-> x]

\* s[i..i+Len(needle)-1] = needle for some i: Python's  needle in s
Contains(s, needle) ==
    \E i \in 0..(Len(s) - Len(needle)) : SubSeq(s, i + 1, i + Len(needle)) = needle

AllSeqs(S, n) == UNION {[1..k -> S] : k \in 0..n}

(***************************************************************************)
(* Characters                                                              *)
(***************************************************************************)
Digits == {"0", "1", "2", "3", "4", "5", "6", "7", "8", "9"}

Letters == {"a", "c", "d", "e", "i", "n", "o", "r", "s", "u", "y", "A", "N", "D",
            "b", "B", "t", "T", "k", "m", "w", "W"}

\* \w of Python's re on str: letters, digits and the underscore
IsWord(c) == c \in Digits \cup Letters \cup {"_"}

\* \d
IsDigit(c) == c \in Digits

(***************************************************************************)
(* get_otp._extract_otp  (utils.py 27-30)                                  *)
(***************************************************************************)
CodeLen == 6

Falsy(x) == x = None \/ x = <<>>

\* body = msg.text or msg.html or ""
BodyOf(msg) ==
    IF ~Falsy(msg.text) THEN msg.text
    ELSE IF ~Falsy(msg.html) THEN msg.html
    ELSE <<>>

\* \b at the gap before position p (1..Len+1): exactly one side is a word character
WordBoundary(s, p) ==
    LET before == p - 1 >= 1 /\ IsWord(s[p - 1])
        after  == p <= Len(s) /\ IsWord(s[p])
    IN  before # after

MatchAtNoBoundary(s, i) ==
    /\ i + CodeLen - 1 <= Len(s)
    /\ \A j \in i..(i + CodeLen - 1) : IsDigit(s[j])

\* \b\d{6}\b matches at position i
MatchAt(s, i) ==
    /\ i + CodeLen - 1 <= Len(s)
    /\ WordBoundary(s, i)
    /\ \A j \in i..(i + CodeLen - 1) : IsDigit(s[j])
    /\ WordBoundary(s, i + CodeLen)

\* re.search: the leftmost match, or None
ReSearch(s) ==
    LET starts == {i \in 1..Len(s) : MatchAt(s, i)}
    IN  IF starts = {} THEN None
        ELSE SubSeq(s, Min(starts), Min(starts) + CodeLen - 1)

extract_otp(msg) == ReSearch(BodyOf(msg))

(***************************************************************************)
(* get_otp._is_expected_sender  (utils.py 32-37)                           *)
(* Senders and subjects are token sequences; str.lower() maps each token.  *)
(***************************************************************************)
LowerTok(t) ==
    CASE t = "NOREPLY" -> "noreply"
      [] t = "@ICLOUD.COM" -> "@icloud.com"
      [] t = "VERIFY" -> "verify"
      [] t = "Code" -> "code"
      [] t = "LA28" -> "la28"
      [] OTHER -> t

Lower(s) == IF s = None THEN <<>> ELSE [i \in 1..Len(s) |-> LowerTok(s[i])]

\* "noreply_at_email_olympicid_olympics_com_"
SenderFragment == <<"noreply", "_at_email_olympicid_olympics_com_">>

\* "@icloud.com"
DomainFragment == <<"@icloud.com">>

is_expected_sender_domain_only(sender) == Contains(Lower(sender), DomainFragment)

is_expected_sender(sender) ==
    /\ Contains(Lower(sender), SenderFragment)
    /\ Contains(Lower(sender), DomainFragment)

(***************************************************************************)
(* The mailbox seen by one session of get_otp.  A message carries what the *)
(* code reads: the IMAP flags the search criteria test (to, seen) and the  *)
(* from_, subject, text and html fields.  The mailbox is oldest first, as  *)
(* the server numbers it; fetch(reverse=True) walks it newest first.       *)
(***************************************************************************)
Msg(to, seen, from_, subject, text, html) ==
    [to |-> to, seen |-> seen, from_ |-> from_, subject |-> subject,
     text |-> text, html |-> html]

RelaySender  == <<"noreply", "_at_email_olympicid_olympics_com_", "x7f3", "@icloud.com">>
UpperSender  == <<"NOREPLY", "_at_email_olympicid_olympics_com_", "@ICLOUD.COM">>
NoreplyOther == <<"noreply", "@gmail.com">>
IcloudOther  == <<"support", "@icloud.com">>
GmailOther   == <<"friend", "@gmail.com">>

Senders == {RelaySender, UpperSender, NoreplyOther, IcloudOther, GmailOther, None}

Subjects == {<<"hello">>, <<"VERIFY", "now">>, None}

KeywordSubjects ==
    {<<"verification">>, <<"your", "Code">>, <<"olympic", "s">>, <<"LA28", "tickets">>}

CodeText == <<"4", "8", "2", "9", "1", "3">>
HtmlCode == <<"6", "5", "4", "3", "2", "1">>
LongDigits == <<"1", "2", "3", "4", "5", "6", "7", "8", "9">>

\* (text, html) pairs: code in the text, code only in the html, no code, nothing
Bodies == {<<CodeText, HtmlCode>>, <<<<>>, HtmlCode>>, <<LongDigits, None>>, <<None, None>>}

Msgs ==
    {Msg(to, seen, f, sj, b[1], b[2]) :
        to \in {"target", "other"}, seen \in BOOLEAN, f \in Senders,
        sj \in Subjects, b \in Bodies}
    \cup {Msg("other", FALSE, GmailOther, sj, CodeText, None) : sj \in KeywordSubjects}

\* messages that fill a fetch up to its limit without being accepted by it
Fillers ==
    {Msg("target", FALSE, RelaySender, <<"hello">>, LongDigits, None),
     Msg("target", FALSE, GmailOther, <<"hello">>, CodeText, None),
     Msg("other", FALSE, GmailOther, <<"hello">>, CodeText, None),
     Msg("target", TRUE, GmailOther, <<"hello">>, LongDigits, None)}

KeyMsgs ==
    {Msg("target", FALSE, RelaySender, <<"hello">>, CodeText, None),
     Msg("other", FALSE, NoreplyOther, <<"hello">>, CodeText, None),
     Msg("target", TRUE, IcloudOther, <<"hello">>, CodeText, None)}

Limit1 == 10
Limit2 == 25
Limit3 == 50

RunLens == {1, Limit1 - 1, Limit1, Limit2 - 1, Limit2, Limit3 - 1, Limit3}

Mailboxes ==
    {<<>>} \cup {<<m>> : m \in Msgs}
    \cup {<<m>> \o Repeat(f, c) : m \in KeyMsgs, f \in Fillers, c \in RunLens}

(***************************************************************************)
(* mailbox.fetch(criteria, limit, reverse=True): the indices of the        *)
(* matching messages, newest first, at most limit of them.                 *)
(***************************************************************************)
Crit(p, m) ==
    CASE p = 1 -> ~m.seen /\ m.to = "target"
      [] p = 2 -> m.to = "target"
      [] p = 3 -> ~m.seen

LimitOf(p) == CASE p = 1 -> Limit1 [] p = 2 -> Limit2 [] p = 3 -> Limit3

Fetch(mb, p) ==
    LET Test(i) == Crit(p, mb[i])
        all == SelectSeq(Reverse([i \in 1..Len(mb) |-> i]), Test)
    IN  SubSeq(all, 1, IF Len(all) < LimitOf(p) THEN Len(all) ELSE LimitOf(p))

\* pass 3's keyword test (utils.py 68-79)
KeywordMatch(m) ==
    LET sender == Lower(m.from_)
        subject == Lower(m.subject)
    IN  \/ is_expected_sender(sender)
        \/ Contains(sender, <<"noreply">>)
        \/ Contains(subject, <<"verify">>)
        \/ Contains(subject, <<"verification">>)
        \/ Contains(subject, <<"code">>)
        \/ Contains(subject, <<"la28">>)
        \/ Contains(subject, <<"olympic">>)

AcceptsStrictPass2(p, m) ==
    CASE p = 1 -> is_expected_sender(m.from_) /\ extract_otp(m) # None
      [] p = 2 -> extract_otp(m) # None /\ is_expected_sender(m.from_)
      [] p = 3 -> KeywordMatch(m) /\ extract_otp(m) # None

AcceptsNoKeyword(p, m) ==
    CASE p = 1 -> is_expected_sender(m.from_) /\ extract_otp(m) # None
      [] p = 2 -> extract_otp(m) # None /\ (is_expected_sender(m.from_) \/ TRUE)
      [] p = 3 -> extract_otp(m) # None

\* the test a message must pass in pass p to be returned
Accepts(p, m) ==
    CASE p = 1 -> is_expected_sender(m.from_) /\ extract_otp(m) # None
      [] p = 2 -> extract_otp(m) # None /\ (is_expected_sender(m.from_) \/ TRUE)
      [] p = 3 -> KeywordMatch(m) /\ extract_otp(m) # None

NoRaise == -1

\* The for loop of one pass over the fetched messages; the fetch or the iteration
\* raises after raiseAfter messages (NoRaise: never).  The mailbox index of the
\* message returned, 0 when the pass returns nothing.
Scan(mb, p, raiseAfter) ==
    LET msgs == Fetch(mb, p)
        n == IF raiseAfter = NoRaise \/ raiseAfter > Len(msgs) THEN Len(msgs)
             ELSE raiseAfter
        hits == {k \in 1..n : Accepts(p, mb[msgs[k]])}
    IN  IF hits = {} THEN 0 ELSE msgs[Min(hits)]

(***************************************************************************)
(* get_otp  (utils.py 23-94)                                               *)
(***************************************************************************)
VARIABLES
    retries,      \* argument retries
    delay,        \* argument delay
    attempt,      \* iterations of  for _ in range(retries)  started so far
    otpPc,        \* position in get_otp
    mailbox,      \* the mailbox the open session sees (<<>> when no session)
    passes,       \* the passes run in the current attempt: <<pass, outcome>>
    sessions,     \* MailBox(host).login calls made
    sleeps,       \* time.sleep(delay) calls made
    elapsed,      \* seconds slept
    found,        \* the pass and mailbox index of the accepted message
    result        \* the value returned, once otpPc = "done"

otpVars == <<retries, delay, attempt, otpPc, mailbox, passes, sessions, sleeps,
             elapsed, found, result>>

DefaultRetries == 10
DefaultDelay == 5

MaxRetries == 2

NotFound == [pass |-> 0, idx |-> 0]

OtpInit ==
    /\ \/ retries \in 0..MaxRetries /\ delay \in {1, DefaultDelay}
       \/ retries = DefaultRetries /\ delay = DefaultDelay
    /\ attempt = 0
    /\ otpPc = "loop"
    /\ mailbox = <<>>
    /\ passes = <<>>
    /\ sessions = 0
    /\ sleeps = 0
    /\ elapsed = 0
    /\ found = NotFound
    /\ result = None

OtpIdle ==
    /\ retries = 0
    /\ delay = 0
    /\ attempt = 0
    /\ otpPc = "idle"
    /\ mailbox = <<>>
    /\ passes = <<>>
    /\ sessions = 0
    /\ sleeps = 0
    /\ elapsed = 0
    /\ found = NotFound
    /\ result = None

LoopContinuesOffByOne(a, n) == a <= n

\* for _ in range(retries): another iteration follows a iterations
LoopContinues(a, n) == a < n

\* line 39: the next iteration starts
OtpLoopNext ==
    /\ otpPc = "loop"
    /\ LoopContinues(attempt, retries)
    /\ attempt' = attempt + 1
    /\ passes' = <<>>
    /\ otpPc' = "login"
    /\ UNCHANGED <<retries, delay, mailbox, sessions, sleeps, elapsed, found, result>>

\* line 94: the range is exhausted, return None
OtpLoopExit ==
    /\ otpPc = "loop"
    /\ ~LoopContinues(attempt, retries)
    /\ result' = None
    /\ otpPc' = "done"
    /\ UNCHANGED <<retries, delay, attempt, mailbox, passes, sessions, sleeps,
                   elapsed, found>>

\* line 41: the session opens and sees some mailbox
OtpLogin ==
    /\ otpPc = "login"
    /\ \E mb \in Mailboxes : mailbox' = mb
    /\ sessions' = sessions + 1
    /\ otpPc' = "pass1"
    /\ UNCHANGED <<retries, delay, attempt, passes, sleeps, elapsed, found, result>>

\* line 41 raises: control goes to the outer except (line 90)
OtpLoginRaises ==
    /\ otpPc = "login"
    /\ sessions' = sessions + 1
    /\ otpPc' = "imap_error"
    /\ UNCHANGED <<retries, delay, attempt, mailbox, passes, sleeps, elapsed, found,
                   result>>

PassPc(p) == CASE p = 1 -> "pass1" [] p = 2 -> "pass2" [] p = 3 -> "pass3"

AfterPassKeepsGoing(p, hit) == IF p = 3 THEN "sleep" ELSE PassPc(p + 1)

\* where control goes after pass p: return on a hit, else the next pass or the sleep
AfterPass(p, hit) ==
    IF hit # 0 THEN "done"
    ELSE IF p = 3 THEN "sleep" ELSE PassPc(p + 1)

OnPassErrorEscapes(p) == "imap_error"

\* lines 53-54, 63-64, 84-85: except Exception: pass; control goes on after the pass
OnPassError(p) == AfterPass(p, 0)

\* lines 44-53, 55-63, 65-85: one pass, inside its own try/except
OtpPass(p) ==
    /\ otpPc = PassPc(p)
    /\ \E raiseAfter \in {NoRaise, 0, 1} :
         LET hit == Scan(mailbox, p, raiseAfter)
             outcome == IF hit # 0 THEN "code"
                        ELSE IF raiseAfter # NoRaise THEN "raised" ELSE "none"
         IN  /\ passes' = Append(passes, <<p, outcome>>)
             /\ otpPc' = IF outcome = "raised" THEN OnPassError(p) ELSE AfterPass(p, hit)
             /\ IF hit # 0
                  THEN /\ found' = [pass |-> p, idx |-> hit]
                       /\ result' = extract_otp(mailbox[hit])
                  ELSE UNCHANGED <<found, result>>
    /\ UNCHANGED <<retries, delay, attempt, mailbox, sessions, sleeps, elapsed>>

OtpPass1 == OtpPass(1)
OtpPass2 == OtpPass(2)
OtpPass3 == OtpPass(3)

\* lines 87-88: the session is closed, sleep, next iteration
OtpSleep ==
    /\ otpPc = "sleep"
    /\ mailbox' = <<>>
    /\ sleeps' = sleeps + 1
    /\ elapsed' = elapsed + delay
    /\ otpPc' = "loop"
    /\ UNCHANGED <<retries, delay, attempt, passes, sessions, found, result>>

OtpImapErrorNoSleep ==
    /\ otpPc = "imap_error"
    /\ mailbox' = <<>>
    /\ otpPc' = "loop"
    /\ UNCHANGED <<retries, delay, attempt, passes, sessions, sleeps, elapsed, found,
                   result>>

\* lines 90-92: the outer except
OtpImapError ==
    /\ otpPc = "imap_error"
    /\ mailbox' = <<>>
    /\ sleeps' = sleeps + 1
    /\ elapsed' = elapsed + delay
    /\ otpPc' = "loop"
    /\ UNCHANGED <<retries, delay, attempt, passes, sessions, found, result>>

OtpNext ==
    \/ OtpLoopNext
    \/ OtpLoopExit
    \/ OtpLogin
    \/ OtpLoginRaises
    \/ OtpPass1
    \/ OtpPass2
    \/ OtpPass3
    \/ OtpSleep
    \/ OtpImapError

(***************************************************************************)
(* Properties of get_otp                                                   *)
(***************************************************************************)
InAttempt == otpPc \in {"login", "pass1", "pass2", "pass3", "sleep", "imap_error"}

\* C1: when no pass of any attempt yields a code, get_otp makes exactly retries
\* attempts, opening one session in each and sleeping delay after each, never starts
\* attempt retries + 1, and returns None.
C1_ExactlyNAttempts ==
    /\ attempt <= retries
    /\ sessions = attempt - (IF otpPc = "login" THEN 1 ELSE 0)
    /\ found.pass = 0 =>
         /\ sleeps = attempt - (IF InAttempt THEN 1 ELSE 0)
         /\ elapsed = sleeps * delay
    /\ (otpPc = "done" /\ found.pass = 0) =>
         /\ result = None
         /\ attempt = retries
         /\ sessions = retries
         /\ sleeps = retries
         /\ elapsed = retries * delay

\* the default run: 10 attempts, 5 s apart, 50 s slept, nothing found
C1_Witness ==
    /\ otpPc = "done"
    /\ found.pass = 0
    /\ retries = DefaultRetries
    /\ delay = DefaultDelay
    /\ sessions = 10
    /\ elapsed = 50

InWindow(mb, p, i) ==
    /\ Crit(p, mb[i])
    /\ Cardinality({j \in (i + 1)..Len(mb) : Crit(p, mb[j])}) < LimitOf(p)

\* pass p of the current attempt ran to its end without raising and found nothing
RanClean(p) == Len(passes) >= p /\ passes[p] = <<p, "none">> /\ mailbox # <<>>

\* C8: pass 2 accepts the newest message, among the 25 newest addressed to the target
\* (read or unread), that contains a 6-digit code, whatever its sender.
C8_Pass2AnySender ==
    /\ found.pass = 2 =>
         /\ InWindow(mailbox, 2, found.idx)
         /\ extract_otp(mailbox[found.idx]) # None
         /\ \A j \in (found.idx + 1)..Len(mailbox) :
              mailbox[j].to = "target" => extract_otp(mailbox[j]) = None
    /\ RanClean(2) =>
         \A i \in 1..Len(mailbox) :
            InWindow(mailbox, 2, i) => extract_otp(mailbox[i]) = None

\* pass 2 returned the code of a read message from a sender that is not the expected one
C8_Witness ==
    /\ found.pass = 2
    /\ ~is_expected_sender(mailbox[found.idx].from_)
    /\ mailbox[found.idx].seen
    /\ result = CodeText

\* the sender test as the source states it: both fragments, case-insensitively
HasBothFragments(sender) ==
    /\ sender # None
    /\ \E i \in 1..(Len(sender) - 1) :
         /\ LowerTok(sender[i]) = "noreply"
         /\ LowerTok(sender[i + 1]) = "_at_email_olympicid_olympics_com_"
    /\ \E i \in 1..Len(sender) : LowerTok(sender[i]) = "@icloud.com"

\* C9 (amended): a code returned by pass 1 comes from an unread message addressed to
\* the target, among the 10 newest such, whose sender contains, ignoring case, both
\* "noreply_at_email_olympicid_olympics_com_" and "@icloud.com"; a message whose
\* sender lacks either fragment is never accepted by pass 1.
C9_Pass1ExpectedSender ==
    /\ found.pass = 1 =>
         /\ InWindow(mailbox, 1, found.idx)
         /\ ~mailbox[found.idx].seen
         /\ mailbox[found.idx].to = "target"
         /\ HasBothFragments(mailbox[found.idx].from_)
         /\ result = extract_otp(mailbox[found.idx])
    /\ RanClean(1) =>
         \A i \in 1..Len(mailbox) :
            (InWindow(mailbox, 1, i) /\ HasBothFragments(mailbox[i].from_))
               => extract_otp(mailbox[i]) = None

\* pass 1 accepted the 10th newest unread message to the target
C9_Witness ==
    /\ found.pass = 1
    /\ Cardinality({j \in (found.idx + 1)..Len(mailbox) : Crit(1, mailbox[j])})
         = Limit1 - 1

\* C9 as claimed: pass 1 accepts only the one exact expected-sender string
C9_ExactSenderOnly ==
    found.pass = 1 => mailbox[found.idx].from_ = RelaySender

\* the keyword set of pass 3 as the claim lists it
ClaimedKeyword(m) ==
    LET sender == Lower(m.from_)
        subject == Lower(m.subject)
    IN  \/ HasBothFragments(m.from_)
        \/ \E i \in 1..Len(sender) : sender[i] = "noreply"
        \/ \E i \in 1..Len(subject) :
             subject[i] \in {"verify", "verification", "code", "la28", "olympic"}

\* C10: a code returned by pass 3 comes from an unread message, among the 50 newest
\* unread of the mailbox, that contains a 6-digit code and matches the keyword set;
\* newer unread messages with a code and no keyword match are skipped.
C10_Pass3Keyword ==
    /\ found.pass = 3 =>
         /\ InWindow(mailbox, 3, found.idx)
         /\ ~mailbox[found.idx].seen
         /\ extract_otp(mailbox[found.idx]) # None
         /\ ClaimedKeyword(mailbox[found.idx])
         /\ result = extract_otp(mailbox[found.idx])
    /\ RanClean(3) =>
         \A i \in 1..Len(mailbox) :
            (InWindow(mailbox, 3, i) /\ ClaimedKeyword(mailbox[i]))
               => extract_otp(mailbox[i]) = None

\* pass 3 skipped newer unread messages that hold a code but match no keyword
C10_Witness ==
    /\ found.pass = 3
    /\ \E j \in (found.idx + 1)..Len(mailbox) :
         /\ ~mailbox[j].seen
         /\ extract_otp(mailbox[j]) # None
         /\ ~ClaimedKeyword(mailbox[j])

\* the attempt that just ended ran no pass: its login raised
LastAttemptErrored == otpPc \in {"loop", "done"} /\ attempt >= 1 /\ passes = <<>>

\* C11: a login that raises is caught inside get_otp: the attempt it belongs to is one
\* of the retries attempts, the handler sleeps delay and the loop goes on; whatever
\* mix of raising and empty attempts, None is returned after exactly retries attempts
\* and retries sleeps.
C11_LoginErrorSwallowed ==
    /\ [](otpPc = "imap_error" =>
            /\ attempt \in 1..retries
            /\ found = NotFound /\ result = None
            /\ sleeps = attempt - 1)
    /\ []((otpPc = "done" /\ found.pass = 0) =>
            /\ result = None
            /\ attempt = retries
            /\ sleeps = retries
            /\ elapsed = retries * delay)
    /\ [][(otpPc = "login" /\ otpPc' = "imap_error") =>
            (attempt' = attempt /\ sleeps' = sleeps /\ result' = None)]_otpVars
    /\ [][otpPc = "imap_error" =>
            /\ otpPc' = "loop"
            /\ attempt' = attempt
            /\ sleeps' = sleeps + 1
            /\ elapsed' = elapsed + delay
            /\ result' = None]_otpVars

\* two attempts allowed, the second one's login raised, None returned after both
C11_Witness ==
    /\ otpPc = "done"
    /\ retries = 2
    /\ LastAttemptErrored
    /\ found.pass = 0
    /\ result = None
    /\ sessions = 2
    /\ sleeps = 2

\* the passes of the current attempt that raised
RaisedPasses == {k \in 1..Len(passes) : passes[k][2] = "raised"}

VARIABLES
    exMsg,        \* the message passed to _extract_otp
    exPc,         \* "call" before the call, "done" after it
    exOut         \* the value returned

exVars == <<exMsg, exPc, exOut>>

MaxChunks == 3

OtherCode == <<"7", "0", "7", "0", "7", "0">>

YourCodeIs == <<"y", "o", "u", "r", " ", "c", "o", "d", "e", " ", "i", "s", " ">>

Chunks == {CodeText, OtherCode, LongDigits, <<"5">>, <<"a">>, <<"_">>, <<" ">>, <<".">>,
           YourCodeIs}

ExTexts == {None} \cup {Flatten(cs) : cs \in AllSeqs(Chunks, MaxChunks)}

ExHtmls == {None, <<>>, HtmlCode}

ExInit ==
    /\ exMsg \in {Msg("target", FALSE, None, None, t, h) : t \in ExTexts, h \in ExHtmls}
    /\ exPc = "call"
    /\ exOut = None

ExIdle ==
    /\ exMsg = Msg("target", FALSE, None, None, None, None)
    /\ exPc = "idle"
    /\ exOut = None

\* lines 27-30
ExtractCall ==
    /\ exPc = "call"
    /\ exOut' = extract_otp(exMsg)
    /\ exPc' = "done"
    /\ UNCHANGED exMsg

\* six digits at i..i+5 with no digit or word character next to them
Standalone(s, i) ==
    /\ i >= 1 /\ i + 5 <= Len(s)
    /\ \A j \in i..(i + 5) : s[j] \in Digits
    /\ i = 1 \/ ~(s[i - 1] \in Digits \cup Letters \cup {"_"})
    /\ i + 5 = Len(s) \/ ~(s[i + 6] \in Digits \cup Letters \cup {"_"})

\* the body the claim says is searched: the text part, the html part only when the
\* text part is absent or empty
Searched(m) ==
    IF m.text # None /\ m.text # <<>> THEN m.text
    ELSE IF m.html # None THEN m.html ELSE <<>>

\* C3: _extract_otp returns the first standalone 6-digit sequence of the text part
\* (of the html part only when the text part is absent or empty) and None when there
\* is none; "123456789" yields None and "your code is 482913." yields "482913".
C3_FirstStandaloneCode ==
    exPc = "done" =>
        LET body == Searched(exMsg)
            at == {i \in 1..Len(body) : Standalone(body, i)}
        IN  /\ at = {} => exOut = None
            /\ at # {} =>
                 \E i \in at :
                    /\ \A j \in at : i <= j
                    /\ exOut = SubSeq(body, i, i + 5)
            /\ body = LongDigits => exOut = None
            /\ body = YourCodeIs \o CodeText \o <<".">> => exOut = CodeText

\* two standalone codes, the first one returned; the html part is ignored
C3_Witness ==
    /\ exPc = "done"
    /\ exMsg.text = OtherCode \o <<" ">> \o CodeText
    /\ exMsg.html = HtmlCode
    /\ exOut = OtherCode

(***************************************************************************)
(* select_option_by_text_safe  (bot.py 247-324)                            *)
(* Labels are character sequences; "nbsp" is U+00A0, a \s character too.    *)
(***************************************************************************)
Spaces == {" ", "nbsp"}

IsSpace(c) == c \in Spaces

LowerLetters == <<"a", "n", "d", "t", "f", "s", "w", "b", "h", "k", "o", "p", "c", "r">>
UpperLetters == <<"A", "N", "D", "T", "F", "S", "W", "B", "H", "K", "O", "P", "C", "R">>

UpperOf == [c \in {LowerLetters[i] : i \in 1..Len(LowerLetters)} |->
              UpperLetters[CHOOSE i \in 1..Len(LowerLetters) : LowerLetters[i] = c]]

LowerOf == [c \in {UpperLetters[i] : i \in 1..Len(UpperLetters)} |->
              LowerLetters[CHOOSE i \in 1..Len(UpperLetters) : UpperLetters[i] = c]]

LowerChar(c) == IF c \in DOMAIN LowerOf THEN LowerOf[c] ELSE c

\* toLowerCase / str.lower on a label
LowerSeq(s) == [i \in 1..Len(s) |-> LowerChar(s[i])]

RECURSIVE LStrip(_)
LStrip(s) == IF s # <<>> /\ IsSpace(Head(s)) THEN LStrip(Tail(s)) ELSE s

\* String.trim / str.strip
Trim(s) == Reverse(LStrip(Reverse(LStrip(s))))

\* replace(/ /g, ' ')
NbspToSpace(s) == [i \in 1..Len(s) |-> IF s[i] = "nbsp" THEN " " ELSE s[i]]

\* replace(/\s+/g, ' ')
RECURSIVE Collapse(_)
Collapse(s) ==
    IF s = <<>> THEN <<>>
    ELSE IF IsSpace(Head(s)) THEN <<" ">> \o Collapse(LStrip(s))
    ELSE <<Head(s)>> \o Collapse(Tail(s))

\* str.replace(old, new) / replace(/old/g, new): leftmost, non-overlapping
RECURSIVE ReplaceAll(_, _, _)
ReplaceAll(s, old, new) ==
    IF Len(s) < Len(old) THEN s
    ELSE IF SubSeq(s, 1, Len(old)) = old
         THEN new \o ReplaceAll(SubSeq(s, Len(old) + 1, Len(s)), old, new)
         ELSE <<Head(s)>> \o ReplaceAll(Tail(s), old, new)

And == <<"a", "n", "d">>

normalizeNoAmp(s) == LowerSeq(Trim(Collapse(NbspToSpace(s))))

\* lines 293-298
normalize(s) == ReplaceAll(LowerSeq(Trim(Collapse(NbspToSpace(s)))), <<"&">>, And)

Dedupe(alts) ==
    LET keep == {i \in 1..Len(alts) : \A j \in 1..(i - 1) : alts[j] # alts[i]}
        Test(i) == i \in keep
        idx == SelectSeq([i \in 1..Len(alts) |-> i], Test)
    IN  [k \in 1..Len(idx) |-> alts[idx[k]]]

\* lines 248-263
alt_text_candidates(text) ==
    LET t == Trim(IF text = None THEN <<>> ELSE text)
        alt == ReplaceAll(t, <<"&">>, And)
        alt2 == ReplaceAll(t, <<" ">> \o And \o <<" ">>, <<" ", "&", " ">>)
    IN  IF t = <<>> THEN <<>>
        ELSE Dedupe(<<t>> \o (IF alt # t THEN <<alt>> ELSE <<>>)
                          \o (IF alt2 # t THEN <<alt2>> ELSE <<>>))

\* sb.cdp.select_option_by_text(selector, candidate): the first option whose trimmed
\* text is the trimmed candidate, 0 when it raises for want of one
NativeSelect(options, candidate) ==
    LET hits == {i \in 1..Len(options) : Trim(options[i]) = Trim(candidate)}
    IN  IF hits = {} THEN 0 ELSE Min(hits)

\* the candidates of the three passes of the script (lines 305, 308, 312)
ExactCandidates(options, targetText) ==
    {i \in 1..Len(options) : Trim(options[i]) = targetText}

NormalizedCandidates(options, nt) ==
    {i \in 1..Len(options) : normalize(options[i]) = nt}

SubstringCandidates(options, nt) ==
    {i \in 1..Len(options) :
        Contains(normalize(options[i]), nt) \/ Contains(nt, normalize(options[i]))}

NoMatch == [ok |-> FALSE, via |-> "none", chosen |-> 0]

\* options.find(...): the first option in document order
FindLast(S) == CHOOSE x \in S : \A y \in S : y <= x

Find(S) == Min(S)

\* lines 300-320: the script's matcher
JsMatch(options, text) ==
    LET targetText == Trim(IF text = None THEN <<>> ELSE text)
        nt == normalize(targetText)
        exact == ExactCandidates(options, targetText)
        norm == NormalizedCandidates(options, nt)
        sub == SubstringCandidates(options, nt)
    IN  IF nt = <<>> THEN NoMatch
        ELSE IF exact # {} THEN [ok |-> TRUE, via |-> "exact", chosen |-> Find(exact)]
        ELSE IF norm # {} THEN [ok |-> TRUE, via |-> "normalized", chosen |-> Find(norm)]
        ELSE IF sub # {} THEN [ok |-> TRUE, via |-> "substring", chosen |-> Find(sub)]
        ELSE NoMatch

NativeModes == {"works", "wait_raises", "select_raises"}

JsModes == {"ok", "not_a_dict", "raises"}

\* lines 265-277: the native attempt over the alternative texts; 0 when none selects
NativeTry(options, text, nativeMode) ==
    LET alts == alt_text_candidates(text)
        hits == {k \in 1..Len(alts) : NativeSelect(options, alts[k]) # 0}
    IN  IF nativeMode # "works" \/ hits = {} THEN 0
        ELSE NativeSelect(options, alts[Min(hits)])

\* select_option_by_text_safe on a select with these options: the value returned
\* ("True", "False", or "raised" when sb.cdp.evaluate raises), the option selected
\* (0: none) and the strategy that selected it
SafeSelect(options, text, nativeMode, jsMode) ==
    LET nat == NativeTry(options, text, nativeMode)
        js == JsMatch(options, text)
    IN  IF nat # 0 THEN [result |-> "True", chosen |-> nat, via |-> "native"]
        ELSE IF jsMode = "raises" THEN [result |-> "raised", chosen |-> 0, via |-> "none"]
        ELSE IF jsMode = "not_a_dict" THEN [result |-> "False", chosen |-> 0, via |-> "none"]
        ELSE [result |-> IF js.ok THEN "True" ELSE "False", chosen |-> js.chosen,
              via |-> js.via]

(***************************************************************************)
(* select_option_by_text_safe called on one select.  The option list is    *)
(* built from labels unrelated to the desired text and from variants of    *)
(* it: texts reached from it by edits of letter case, of whitespace runs   *)
(* and of "&" against "and".                                               *)
(***************************************************************************)
VARIABLES
    mtText,       \* argument text: the desired label
    mtOptions,    \* the option texts of the select, in document order
    mtVariants,   \* the indices of the options built as variants of mtText
    mtEdits,      \* edits spent on building variants
    mtPc,         \* "build" while the page is set up, "done" after the call
    mtNative,     \* how the native calls of this call behaved
    mtJs,         \* how sb.cdp.evaluate behaved
    mtOut         \* the outcome of select_option_by_text_safe

mtVars == <<mtText, mtOptions, mtVariants, mtEdits, mtPc, mtNative, mtJs, mtOut>>

MaxOptions == 2
MaxEdits == 1
MaxLabelLen == 7

TAmpF == <<"T", " ", "&", " ", "F">>
TAndF == <<"T", " ", "a", "n", "d", " ", "F">>
Sand == <<"S", "a", "n", "d">>

MtTexts == {TAmpF, TAndF, Sand, <<"t">>, <<" ", "F">>, <<>>, None}

\* labels that are variants of no desired text
OtherLabels == {<<"W", " ", "T", " ", "&", " ", "F">>, <<"t", "W">>, <<"W">>, <<>>}

IsLetter(c) == c \in DOMAIN UpperOf \/ c \in DOMAIN LowerOf

ToggleCase(c) == IF c \in DOMAIN UpperOf THEN UpperOf[c] ELSE LowerChar(c)

Splice(s, i, n, new) == SubSeq(s, 1, i - 1) \o new \o SubSeq(s, i + n, Len(s))

\* the texts one edit away from s
VariantStep(s) ==
    {Splice(s, i, 1, <<ToggleCase(s[i])>>) : i \in {j \in 1..Len(s) : IsLetter(s[j])}}
    \cup {Splice(s, i, 1, And) : i \in {j \in 1..Len(s) : s[j] = "&"}}
    \cup {Splice(s, i, 3, <<"&">>) :
            i \in {j \in 1..(Len(s) - 2) : LowerSeq(SubSeq(s, j, j + 2)) = And}}
    \cup {Splice(s, i, 1, <<w>>) : i \in {j \in 1..Len(s) : IsSpace(s[j])}, w \in Spaces}
    \cup {Splice(s, i, 1, <<w, s[i]>>) : i \in {j \in 1..Len(s) : IsSpace(s[j])}, w \in Spaces}
    \cup {Splice(s, i, 1, <<>>) :
            i \in {j \in 1..Len(s) :
                    /\ IsSpace(s[j])
                    /\ j = 1 \/ j = Len(s) \/ IsSpace(s[j - 1]) \/ IsSpace(s[j + 1])}}
    \cup {<<w>> \o s : w \in Spaces} \cup {s \o <<w>> : w \in Spaces}

\* the texts k edits away from s
RECURSIVE VariantSteps(_, _)
VariantSteps(s, k) ==
    IF k = 0 THEN {s}
    ELSE UNION {VariantStep(v) : v \in VariantSteps(s, k - 1)}

\* the texts that differ from s in one gap: a space put between two characters that
\* touch, or the one whitespace character between two characters taken out
GapStep(s) ==
    {Splice(s, i, 1, <<s[i], " ">>) :
        i \in {j \in 1..(Len(s) - 1) : ~IsSpace(s[j]) /\ ~IsSpace(s[j + 1])}}
    \cup {Splice(s, i, 1, <<>>) :
            i \in {j \in 2..(Len(s) - 1) :
                    IsSpace(s[j]) /\ ~IsSpace(s[j - 1]) /\ ~IsSpace(s[j + 1])}}

MtInit ==
    /\ mtText \in MtTexts
    /\ mtOptions = <<>>
    /\ mtVariants = {}
    /\ mtEdits = 0
    /\ mtPc = "build"
    /\ mtNative = "works"
    /\ mtJs = "ok"
    /\ mtOut = [result |-> "False", chosen |-> 0, via |-> "none"]

MtIdle ==
    /\ mtText = None
    /\ mtOptions = <<>>
    /\ mtVariants = {}
    /\ mtEdits = 0
    /\ mtPc = "idle"
    /\ mtNative = "works"
    /\ mtJs = "ok"
    /\ mtOut = [result |-> "False", chosen |-> 0, via |-> "none"]

\* the page holds one more option, unrelated to the desired text
MtAddOther ==
    /\ mtPc = "build"
    /\ Len(mtOptions) < MaxOptions
    /\ \E o \in OtherLabels : mtOptions' = Append(mtOptions, o)
    /\ UNCHANGED <<mtText, mtVariants, mtEdits, mtPc, mtNative, mtJs, mtOut>>

\* the page holds one more option, some edits away from the desired text
MtAddVariant ==
    /\ mtPc = "build"
    /\ mtText # None
    /\ Len(mtOptions) < MaxOptions
    /\ \E k \in 1..(MaxEdits - mtEdits) :
         /\ \E v \in VariantSteps(mtText, k) :
              /\ Len(v) <= MaxLabelLen
              /\ mtOptions' = Append(mtOptions, v)
         /\ mtEdits' = mtEdits + k
    /\ mtVariants' = mtVariants \cup {Len(mtOptions) + 1}
    /\ UNCHANGED <<mtText, mtPc, mtNative, mtJs, mtOut>>

\* the page holds one more option, the desired text with one gap opened or closed
MtAddGapVariant ==
    /\ mtPc = "build"
    /\ mtText # None
    /\ Len(mtOptions) < MaxOptions
    /\ mtEdits < MaxEdits
    /\ \E v \in GapStep(mtText) :
         /\ Len(v) <= MaxLabelLen
         /\ mtOptions' = Append(mtOptions, v)
    /\ mtEdits' = mtEdits + 1
    /\ UNCHANGED <<mtText, mtVariants, mtPc, mtNative, mtJs, mtOut>>

\* lines 247-324: the call
MtSelect ==
    /\ mtPc = "build"
    /\ \E nativeMode \in NativeModes, jsMode \in JsModes :
         /\ mtNative' = nativeMode
         /\ mtJs' = jsMode
         /\ mtOut' = SafeSelect(mtOptions, mtText, nativeMode, jsMode)
    /\ mtPc' = "done"
    /\ UNCHANGED <<mtText, mtOptions, mtVariants, mtEdits>>

\* the script's matcher decided this call: no native selection, evaluate returned
JsDecided == mtPc = "done" /\ mtOut.via # "native" /\ mtJs = "ok"

DesiredText == Trim(IF mtText = None THEN <<>> ELSE mtText)

\* the three strategies as the claim states them, on one option text
Strategy(k, o) ==
    CASE k = 1 -> Trim(o) = DesiredText
      [] k = 2 -> normalize(o) = normalize(DesiredText)
      [] k = 3 -> \/ Contains(normalize(o), normalize(DesiredText))
                  \/ Contains(normalize(DesiredText), normalize(o))

StrategyOf(via) == CASE via = "exact" -> 1 [] via = "normalized" -> 2 [] via = "substring" -> 3

Yields(k) == {i \in 1..Len(mtOptions) : Strategy(k, mtOptions[i])}

\* C5 (amended): the matcher tries exact, normalized and substring matching in that
\* order, consults a strategy only when every earlier one yields no candidate, and
\* accepts the first option in document order of the first strategy that yields at
\* least one candidate; it reports not-found when none does or the text is empty.
C5_FirstStrategyFirstOption ==
    JsDecided =>
        IF normalize(DesiredText) = <<>> \/ (\A k \in 1..3 : Yields(k) = {})
        THEN mtOut.result = "False" /\ mtOut.chosen = 0
        ELSE /\ mtOut.result = "True"
             /\ mtOut.via \in {"exact", "normalized", "substring"}
             /\ mtOut.chosen \in Yields(StrategyOf(mtOut.via))
             /\ \A i \in Yields(StrategyOf(mtOut.via)) : mtOut.chosen <= i
             /\ \A k \in 1..(StrategyOf(mtOut.via) - 1) : Yields(k) = {}

\* the substring strategy yields two candidates and the first of them is accepted
C5_Witness ==
    /\ JsDecided
    /\ mtOut.via = "substring"
    /\ Cardinality(Yields(3)) = 2
    /\ mtOut.chosen = 1

\* C5 as claimed: the strategy that wins yields exactly one candidate
C5_UniqueCandidateWins ==
    (JsDecided /\ mtOut.result = "True") =>
        Cardinality(Yields(StrategyOf(mtOut.via))) = 1

\* the options that differ from the desired text in one gap
GapVariants ==
    {i \in 1..Len(mtOptions) : mtText # None /\ mtOptions[i] \in GapStep(mtText)}

NoExactOption == \A i \in 1..Len(mtOptions) : Trim(mtOptions[i]) # DesiredText

\* C6 (amended): when no option passes the exact test (equality of the trimmed texts)
\* and some option differs from the desired text only in the length or kind of its
\* whitespace runs, in padding, in letter case or in "&" against "and", the exact pass
\* selects nothing and the call selects such a variant: by the normalized pass of the
\* script when it runs, or natively by an alternative text.  An option that opens or
\* closes a gap of the desired text is no such variant: neither pass selects it.
C6_VariantSelected ==
    /\ (/\ mtPc = "done"
        /\ mtVariants # {}
        /\ NoExactOption
        /\ mtOut.via = "native" \/ mtJs = "ok") =>
           /\ mtOut.result = "True"
           /\ mtOut.via \in {"native", "normalized"}
           /\ mtOut.chosen \in mtVariants
           /\ mtNative # "works" => mtOut.via = "normalized"
    /\ (mtPc = "done" /\ mtOut.via \in {"native", "exact", "normalized"}) =>
           mtOut.chosen \notin GapVariants

\* desired "T & F", available "T and F": selected by the normalized pass
C6_Witness ==
    /\ mtPc = "done"
    /\ mtText = TAmpF
    /\ mtNative # "works"
    /\ NoExactOption
    /\ mtOut.via = "normalized"
    /\ mtOut.chosen \in mtVariants
    /\ mtOptions[mtOut.chosen] = TAndF

\* C6 as claimed: when no option equals the desired label and some option differs from
\* it only by whitespace, letter case or "&" against "and", the exact pass selects
\* nothing and the normalized pass selects that variant
C6_AnyWhitespaceVariant ==
    (/\ mtPc = "done"
     /\ mtVariants \cup GapVariants # {}
     /\ NoExactOption
     /\ mtNative # "works"
     /\ mtJs = "ok") =>
        /\ mtOut.result = "True"
        /\ mtOut.via = "normalized"
        /\ mtOut.chosen \in mtVariants \cup GapVariants

(***************************************************************************)
(* The page's group of selects whose name contains the marker, and         *)
(* select_nth_named_select_option (bot.py 524-591) polling it.             *)
(* Every select of the group offers the same options; a select listed by   *)
(* _list_selects has a name (line 537 filters on it).                      *)
(***************************************************************************)
VARIABLES
    pgVisible,    \* one entry per rendered select of the group: is it visible
    pgPending,    \* selects the page has been asked for and has not rendered yet
    pgOptions,    \* the option texts of each select of the group
    pgIdeal,      \* every trigger so far rendered one visible select at once
    nthIndex,     \* argument index
    nthText,      \* argument option_text
    nthM,         \* selects rendered when the call started
    nthAttempt,   \* polls done: the loop variable of  for attempt in range(6)
    nthClicks,    \* clicks on an "add another" control made by this call
    nthSelects,   \* calls of select_option_by_text_safe made by this call
    nthPc,        \* "poll" in the loop, "done" after the return
    nthResult     \* the value returned ("raised": an exception left the call)

pgVars == <<pgVisible, pgPending, pgOptions, pgIdeal>>

nthVars == <<nthIndex, nthText, nthM, nthAttempt, nthClicks, nthSelects, nthPc, nthResult>>

PollLimit == 6

MaxIndex == 3
MaxSelects == 5

\* The five labels of olympic_sports (lines 961-967), each word written as its
\* letter: no label's letters occur in another label, as in the source.
Ceremonies == <<"O", " ", "P", " ", "&", " ", "C", " ", "R">>
Basketball == <<"B">>
Athletics  == <<"H", " ", "(", "K", " ", "&", " ", "F", ")">>
Swimming   == <<"S">>
Tennis     == <<"T">>

\* the option lists a page may offer
PageOptions ==
    {<<<<"-", "-">>, Basketball, Swimming>>,
     <<Swimming>>,
     <<>>}

PgInit ==
    /\ pgVisible \in AllSeqs(BOOLEAN, 2)
    /\ pgPending = 0
    /\ pgOptions \in PageOptions
    /\ pgIdeal = TRUE

PgIdle ==
    /\ pgVisible = <<>>
    /\ pgPending = 0
    /\ pgOptions = <<>>
    /\ pgIdeal = TRUE

NthInit ==
    /\ nthIndex \in 1..MaxIndex
    /\ nthText \in {Basketball, Swimming}
    /\ nthM = Len(pgVisible)
    /\ nthAttempt = 0
    /\ nthClicks = 0
    /\ nthSelects = 0
    /\ nthPc = "poll"
    /\ nthResult = "none"

NthIdle ==
    /\ nthIndex = 0
    /\ nthText = <<>>
    /\ nthM = 0
    /\ nthAttempt = 0
    /\ nthClicks = 0
    /\ nthSelects = 0
    /\ nthPc = "idle"
    /\ nthResult = "none"

\* the page renders a select it was asked for earlier
PgRender ==
    /\ pgPending > 0
    /\ \E v \in BOOLEAN : pgVisible' = Append(pgVisible, v)
    /\ pgPending' = pgPending - 1
    /\ UNCHANGED <<pgOptions, pgIdeal>>

\* a hidden select becomes visible
PgShow ==
    /\ \E i \in 1..Len(pgVisible) :
         /\ ~pgVisible[i]
         /\ pgVisible' = [pgVisible EXCEPT ![i] = TRUE]
    /\ UNCHANGED <<pgPending, pgOptions, pgIdeal>>

ClickModes == {"clicked", "wait_fails", "no_button", "raises"}

Reactions == {"now", "now_hidden", "later", "never"}

\* click_add_another_for_select (327-397) and what the page does with the click:
\* the page after the call
PageAfterClick(visible, pending, ideal, clickMode, reaction) ==
    IF clickMode # "clicked"
    THEN [visible |-> visible, pending |-> pending, ideal |-> FALSE]
    ELSE CASE reaction = "now" /\ Len(visible) < MaxSelects ->
                [visible |-> Append(visible, TRUE), pending |-> pending, ideal |-> ideal]
           [] reaction = "now_hidden" /\ Len(visible) < MaxSelects ->
                [visible |-> Append(visible, FALSE), pending |-> pending, ideal |-> FALSE]
           [] reaction = "later" /\ Len(visible) + pending < MaxSelects ->
                [visible |-> visible, pending |-> pending + 1, ideal |-> FALSE]
           [] OTHER ->
                [visible |-> visible, pending |-> pending, ideal |-> FALSE]

BranchOffByOne(count, index, targetVisible) ==
    IF count = 0 THEN "sleep"
    ELSE IF count <= index THEN "add_after_last"
    ELSE IF ~targetVisible /\ index > 1 THEN "add_after_prev"
    ELSE "select"

\* lines 552-589: what one poll does with the listed selects
Branch(count, index, targetVisible) ==
    IF count = 0 THEN "sleep"
    ELSE IF count < index THEN "add_after_last"
    ELSE IF ~targetVisible /\ index > 1 THEN "add_after_prev"
    ELSE "select"

\* what _list_selects reports: the rendered selects, none when evaluate returns no dict
Listed(listMode) == IF listMode = "ok" THEN Len(pgVisible) ELSE 0

PollBranch(listMode) ==
    Branch(Listed(listMode), nthIndex,
           Listed(listMode) >= nthIndex /\ nthIndex >= 1 /\ pgVisible[nthIndex])

\* line 550: sb.cdp.evaluate raises inside _list_selects and the exception leaves the call
NthListRaises ==
    /\ nthPc = "poll"
    /\ nthAttempt < PollLimit
    /\ nthAttempt' = nthAttempt + 1
    /\ nthPc' = "done"
    /\ nthResult' = "raised"
    /\ UNCHANGED <<pgVars, nthIndex, nthText, nthM, nthClicks, nthSelects>>

\* lines 552-562: no select listed, sleep and poll again
NthPollSleep ==
    /\ nthPc = "poll"
    /\ nthAttempt < PollLimit
    /\ \E listMode \in {"ok", "not_a_dict"} :
         /\ PollBranch(listMode) = "sleep"
         /\ pgIdeal' = (pgIdeal /\ listMode = "ok")
    /\ nthAttempt' = nthAttempt + 1
    /\ UNCHANGED <<pgVisible, pgPending, pgOptions, nthIndex, nthText, nthM, nthClicks,
                   nthSelects, nthPc, nthResult>>

\* lines 564-570 and 576-582: the slot is missing or hidden, click "add another"
NthPollAdd ==
    /\ nthPc = "poll"
    /\ nthAttempt < PollLimit
    /\ PollBranch("ok") \in {"add_after_last", "add_after_prev"}
    /\ \E clickMode \in ClickModes, reaction \in Reactions :
         LET after == PageAfterClick(pgVisible, pgPending, pgIdeal, clickMode, reaction)
         IN  /\ clickMode # "clicked" => reaction = "never"
             /\ pgVisible' = after.visible
             /\ pgPending' = after.pending
             /\ pgIdeal' = after.ideal
             /\ nthClicks' = nthClicks + (IF clickMode = "clicked" THEN 1 ELSE 0)
             /\ IF clickMode = "raises"
                  THEN nthPc' = "done" /\ nthResult' = "raised"
                  ELSE UNCHANGED <<nthPc, nthResult>>
    /\ nthAttempt' = nthAttempt + 1
    /\ UNCHANGED <<pgOptions, nthIndex, nthText, nthM, nthSelects>>

NthPollSelectUntilTrue ==
    /\ nthPc = "poll"
    /\ nthAttempt < PollLimit
    /\ PollBranch("ok") = "select"
    /\ \E nativeMode \in NativeModes, jsMode \in JsModes :
         LET r == SafeSelect(pgOptions, nthText, nativeMode, jsMode).result
         IN  /\ nthResult' = r
             /\ nthPc' = IF r = "False" THEN "poll" ELSE "done"
    /\ nthSelects' = nthSelects + 1
    /\ nthAttempt' = nthAttempt + 1
    /\ UNCHANGED <<pgVars, nthIndex, nthText, nthM, nthClicks>>

\* lines 572-589: the slot is there, return what select_option_by_text_safe returns
NthPollSelect ==
    /\ nthPc = "poll"
    /\ nthAttempt < PollLimit
    /\ PollBranch("ok") = "select"
    /\ \E nativeMode \in NativeModes, jsMode \in JsModes :
         nthResult' = SafeSelect(pgOptions, nthText, nativeMode, jsMode).result
    /\ nthSelects' = nthSelects + 1
    /\ nthAttempt' = nthAttempt + 1
    /\ nthPc' = "done"
    /\ UNCHANGED <<pgVars, nthIndex, nthText, nthM, nthClicks>>

\* line 591: the loop ran out
NthGiveUp ==
    /\ nthPc = "poll"
    /\ nthAttempt = PollLimit
    /\ nthPc' = "done"
    /\ nthResult' = "False"
    /\ UNCHANGED <<pgVars, nthIndex, nthText, nthM, nthAttempt, nthClicks, nthSelects>>

\* the call returned a value
NthReturned == nthPc = "done" /\ nthResult \in {"True", "False"}

SlotReady == Len(pgVisible) >= nthIndex /\ (pgVisible[nthIndex] \/ nthIndex = 1)

Raised == <<"raised">>

Placeholders ==
    {<<"s", "e", "l", "e", "c", "t">>,
     <<"s", "e", "l", "e", "c", "t", " ", "o", "n", "e">>,
     <<"p", "l", "e", "a", "s", "e", " ", "s", "e", "l", "e", "c", "t">>,
     <<"-">>, <<"-", "-">>}

\* line 595
ExcludeSet(exclude_texts) ==
    {Trim(exclude_texts[i]) :
        i \in {j \in 1..Len(exclude_texts) : Trim(exclude_texts[j]) # <<>>}}

\* lines 636-648: the candidate labels
Cleaned(options, exclude_texts) ==
    {Trim(Collapse(options[i])) :
        i \in {j \in 1..Len(options) :
                 LET t == Trim(Collapse(options[j]))
                 IN  /\ t # <<>>
                     /\ LowerSeq(t) \notin Placeholders
                     /\ t \notin ExcludeSet(exclude_texts)}}

\* The values the call can return on a group of count selects with these options:
\* None, a candidate that select_option_by_text_safe selected (after the shuffle any
\* candidate can be among the ten tried, any one tried before it can fail), or Raised
\* when an unguarded sb.cdp.evaluate raises.
RandomResults(count, index, options, exclude_texts) ==
    {None, Raised}
    \cup (IF count < index THEN {}
          ELSE {c \in Cleaned(options, exclude_texts) :
                  \E nativeMode \in NativeModes, jsMode \in JsModes :
                     SafeSelect(options, c, nativeMode, jsMode).result = "True"})

(***************************************************************************)
(* The sport-preference loop of run_registration  (bot.py 961-998)         *)
(***************************************************************************)
VARIABLES
    olympic_sports,   \* the list after random.shuffle
    spI,              \* the loop variable i (0 before the loop)
    selected_sports,  \* the labels accepted so far
    spPc              \* "loop", "primary" (select_nth_... running), "done", "aborted"

spVars == <<olympic_sports, spI, selected_sports, spPc>>

SportsList == <<Ceremonies, Basketball, Athletics, Swimming, Tennis>>

\* the orders random.shuffle is taken to produce
Shuffles ==
    {<<1, 2, 3, 4, 5>>, <<5, 4, 3, 2, 1>>, <<3, 5, 1, 2, 4>>}

AthleticsAnd == <<"H", " ", "(", "K", " ", "a", "n", "d", " ", "F", ")">>

\* the option lists the sport selects may offer
SportPageOptions ==
    {<<<<"-", "-">>, Basketball, Swimming, Tennis>>,
     <<Basketball, AthleticsAnd, Swimming>>}

SpInit ==
    /\ olympic_sports \in {[i \in 1..5 |-> SportsList[sh[i]]] : sh \in Shuffles}
    /\ spI = 0
    /\ selected_sports = <<>>
    /\ spPc = "loop"
    /\ pgVisible \in {<<>>, <<TRUE>>}
    /\ pgPending = 0
    /\ pgOptions \in SportPageOptions
    /\ pgIdeal = TRUE

SpIdle ==
    /\ olympic_sports = <<>>
    /\ spI = 0
    /\ selected_sports = <<>>
    /\ spPc = "idle"

\* lines 972-980: the next slot, select_nth_named_select_option is called
SpCallPrimary ==
    /\ spPc = "loop"
    /\ spI < Len(olympic_sports)
    /\ spI' = spI + 1
    /\ spPc' = "primary"
    /\ nthIndex' = spI + 1
    /\ nthText' = olympic_sports[spI + 1]
    /\ nthM' = Len(pgVisible)
    /\ nthAttempt' = 0
    /\ nthClicks' = 0
    /\ nthSelects' = 0
    /\ nthPc' = "poll"
    /\ nthResult' = "none"
    /\ pgIdeal' = TRUE
    /\ UNCHANGED <<olympic_sports, selected_sports, pgVisible, pgPending, pgOptions>>

\* lines 982 and 994: selected_sports.append
Accept(selected, label) == Append(selected, label)

\* lines 981-998: the primary selection returned; accept the sport, or fall back to
\* select_random_option_in_nth_named_select
SpAfterPrimary ==
    /\ spPc = "primary"
    /\ nthPc = "done"
    /\ nthPc' = "idle"
    /\ nthResult' = "none"
    /\ nthIndex' = 0
    /\ nthText' = <<>>
    /\ nthM' = 0
    /\ nthAttempt' = 0
    /\ nthClicks' = 0
    /\ nthSelects' = 0
    /\ CASE nthResult = "True" ->
              /\ selected_sports' = Accept(selected_sports, olympic_sports[spI])
              /\ spPc' = "loop"
         [] nthResult = "raised" ->
              /\ spPc' = "aborted"
              /\ UNCHANGED selected_sports
         [] OTHER ->
              \E chosen \in RandomResults(Len(pgVisible), spI, pgOptions, selected_sports) :
                 /\ spPc' = IF chosen = Raised THEN "aborted" ELSE "loop"
                 /\ selected_sports' =
                      IF chosen \in {None, Raised} THEN selected_sports
                      ELSE Accept(selected_sports, chosen)
    /\ UNCHANGED <<olympic_sports, spI, pgVars>>

\* the loop is over (line 1000 follows)
SpLoopEnd ==
    /\ spPc = "loop"
    /\ spI = Len(olympic_sports)
    /\ spPc' = "done"
    /\ UNCHANGED <<olympic_sports, spI, selected_sports, pgVars, nthVars>>

\* C2: selected_sports never holds a label twice
C2_NoRepeatedLabel ==
    \A a, b \in 1..Len(selected_sports) :
        a # b => selected_sports[a] # selected_sports[b]

(***************************************************************************)
(* run_registration  (bot.py 719-1083): the steps of one run.  A step      *)
(* either completes, returns, or raises; what a raise does depends on      *)
(* where the step stands relative to the try of line 735.                  *)
(***************************************************************************)
VARIABLES
    runPc,              \* the step about to run; "idle", "done" outside a run
    runResult,          \* "none", "True", "False", or "raised": the exception left the call
    runTrace,           \* the steps executed so far, in order
    navAttempt,         \* attempt of the navigation loop (line 748)
    imap_user,          \* os.getenv("IMAP_USER")
    imap_pass,          \* os.getenv("IMAP_PASS")
    DISCORD_WEBHOOK_URL,
    otp,                \* what get_otp returned
    entered,            \* what enter_otp_code did: "none", "True", "False", "raised"
    prefsFailed,        \* some sport or team selection failed
    save_clicked,
    final_url,          \* "none" until read, then "mydatasuccess" or "other"
    notified            \* calls of send_discord_webhook that reached requests.post

runVars == <<runPc, runResult, runTrace, navAttempt, imap_user, imap_pass,
             DISCORD_WEBHOOK_URL, otp, entered, prefsFailed, save_clicked,
             final_url, notified>>

EnvValues == {None, <<>>, <<"x">>}

OtpCode == <<"1", "2", "3", "4", "5", "6">>

NavAttempts == 3

RunInit ==
    /\ runPc = "create"
    /\ runResult = "none"
    /\ runTrace = <<>>
    /\ navAttempt = 0
    /\ imap_user \in EnvValues
    /\ imap_pass \in EnvValues
    /\ DISCORD_WEBHOOK_URL \in {<<>>, <<"x">>}
    /\ otp = None
    /\ entered = "none"
    /\ prefsFailed = FALSE
    /\ save_clicked = FALSE
    /\ final_url = "none"
    /\ notified = 0

RunIdle ==
    /\ runPc = "idle"
    /\ runResult = "none"
    /\ runTrace = <<>>
    /\ navAttempt = 0
    /\ imap_user = None
    /\ imap_pass = None
    /\ DISCORD_WEBHOOK_URL = <<>>
    /\ otp = None
    /\ entered = "none"
    /\ prefsFailed = FALSE
    /\ save_clicked = FALSE
    /\ final_url = "none"
    /\ notified = 0

\* the step at pc runs: the trace grows, control goes to next
Step(pc, next) ==
    /\ runPc = pc
    /\ runTrace' = Append(runTrace, pc)
    /\ runPc' = next

\* return value from inside the with block
Return(value) ==
    /\ runResult' = value
    /\ runPc' = "done"

\* a step outside the try of line 735 raises: the exception leaves run_registration
Propagates(pc) ==
    /\ runPc = pc
    /\ runTrace' = Append(runTrace, pc)
    /\ runResult' = "raised"
    /\ runPc' = "done"

\* line 733: sb = create_sb()
RunCreate ==
    /\ \/ Step("create", "enter") /\ UNCHANGED runResult
       \/ Propagates("create")
    /\ UNCHANGED <<navAttempt, imap_user, imap_pass, DISCORD_WEBHOOK_URL, otp, entered,
                   prefsFailed, save_clicked, final_url, notified>>

\* line 734: with sb as sb
RunEnter ==
    /\ \/ Step("enter", "setup") /\ UNCHANGED runResult
       \/ Propagates("enter")
    /\ UNCHANGED <<navAttempt, imap_user, imap_pass, DISCORD_WEBHOOK_URL, otp, entered,
                   prefsFailed, save_clicked, final_url, notified>>

\* lines 736-745: driver settings inside their own try/except
RunSetup ==
    /\ Step("setup", "navigate")
    /\ UNCHANGED <<runResult, navAttempt, imap_user, imap_pass, DISCORD_WEBHOOK_URL, otp,
                   entered, prefsFailed, save_clicked, final_url, notified>>

\* lines 748-754: activate_cdp_mode, retried; the third failure is raised again
RunNavigate ==
    /\ runPc = "navigate"
    /\ runTrace' = Append(runTrace, "navigate")
    /\ \E raises \in BOOLEAN :
         IF ~raises THEN runPc' = "form" /\ UNCHANGED navAttempt
         ELSE IF navAttempt = NavAttempts - 1 THEN runPc' = "except" /\ UNCHANGED navAttempt
         ELSE runPc' = "navigate" /\ navAttempt' = navAttempt + 1
    /\ UNCHANGED <<runResult, imap_user, imap_pass, DISCORD_WEBHOOK_URL, otp, entered,
                   prefsFailed, save_clicked, final_url, notified>>

\* lines 757-803: the registration form is filled and submitted;
\* sb.cdp.sleep (764, 799, 801) and select_option_by_text_strict (786) are unguarded
RunForm ==
    /\ \/ Step("form", "wait")
       \/ Step("form", "except")
    /\ UNCHANGED <<runResult, navAttempt, imap_user, imap_pass, DISCORD_WEBHOOK_URL, otp,
                   entered, prefsFailed, save_clicked, final_url, notified>>

\* lines 805-856: the OTP page is awaited and the code asked for again; every call
\* here is inside a try/except of its own
RunWait ==
    /\ Step("wait", "credentials")
    /\ UNCHANGED <<runResult, navAttempt, imap_user, imap_pass, DISCORD_WEBHOOK_URL, otp,
                   entered, prefsFailed, save_clicked, final_url, notified>>

RunCredentialsBothMissing ==
    /\ runPc = "credentials"
    /\ runTrace' = Append(runTrace, "credentials")
    /\ IF Falsy(imap_user) /\ Falsy(imap_pass)
         THEN Return("False")
         ELSE runPc' = "get_otp" /\ UNCHANGED runResult
    /\ UNCHANGED <<navAttempt, imap_user, imap_pass, DISCORD_WEBHOOK_URL, otp, entered,
                   prefsFailed, save_clicked, final_url, notified>>

\* lines 858-862
RunCredentials ==
    /\ runPc = "credentials"
    /\ runTrace' = Append(runTrace, "credentials")
    /\ IF Falsy(imap_user) \/ Falsy(imap_pass)
         THEN Return("False")
         ELSE runPc' = "get_otp" /\ UNCHANGED runResult
    /\ UNCHANGED <<navAttempt, imap_user, imap_pass, DISCORD_WEBHOOK_URL, otp, entered,
                   prefsFailed, save_clicked, final_url, notified>>

\* lines 864-865 and 1077-1079: get_otp returns a code or None
RunGetOtp ==
    /\ runPc = "get_otp"
    /\ runTrace' = Append(runTrace, "get_otp")
    /\ \E code \in {None, OtpCode} :
         /\ otp' = code
         /\ IF Falsy(code) THEN Return("False")
            ELSE runPc' = "enter_otp" /\ UNCHANGED runResult
    /\ UNCHANGED <<navAttempt, imap_user, imap_pass, DISCORD_WEBHOOK_URL, entered,
                   prefsFailed, save_clicked, final_url, notified>>

\* lines 868-870: enter_otp_code returns True or False, or its sb.cdp.sleep raises
RunEnterOtp ==
    /\ runPc = "enter_otp"
    /\ runTrace' = Append(runTrace, "enter_otp")
    /\ \E outcome \in {"True", "False", "raised"} :
         /\ entered' = outcome
         /\ CASE outcome = "True" -> runPc' = "verify" /\ UNCHANGED runResult
              [] outcome = "False" -> Return("False")
              [] OTHER -> runPc' = "except" /\ UNCHANGED runResult
    /\ UNCHANGED <<navAttempt, imap_user, imap_pass, DISCORD_WEBHOOK_URL, otp, prefsFailed,
                   save_clicked, final_url, notified>>

\* lines 871-892: the verify click and its script fallback, every call guarded
RunVerify ==
    /\ Step("verify", "profile")
    /\ UNCHANGED <<runResult, navAttempt, imap_user, imap_pass, DISCORD_WEBHOOK_URL, otp,
                   entered, prefsFailed, save_clicked, final_url, notified>>

\* lines 894-959: the profile page is awaited (sb.cdp.sleep of line 905 is unguarded),
\* the birth year selected inside a try/except
RunProfile ==
    /\ \/ Step("profile", "sports")
       \/ Step("profile", "except")
    /\ UNCHANGED <<runResult, navAttempt, imap_user, imap_pass, DISCORD_WEBHOOK_URL, otp,
                   entered, prefsFailed, save_clicked, final_url, notified>>

\* lines 961-998: the sport loop; a failed slot is skipped, a raise leaves the loop
RunSports ==
    /\ \/ Step("sports", "teams") /\ \E failed \in BOOLEAN : prefsFailed' = failed
       \/ Step("sports", "except") /\ UNCHANGED prefsFailed
    /\ UNCHANGED <<runResult, navAttempt, imap_user, imap_pass, DISCORD_WEBHOOK_URL, otp,
                   entered, save_clicked, final_url, notified>>

\* lines 1000-1020: the team loop
RunTeams ==
    /\ \/ Step("teams", "save") /\ \E failed \in BOOLEAN : prefsFailed' = (prefsFailed \/ failed)
       \/ Step("teams", "except") /\ UNCHANGED prefsFailed
    /\ UNCHANGED <<runResult, navAttempt, imap_user, imap_pass, DISCORD_WEBHOOK_URL, otp,
                   entered, save_clicked, final_url, notified>>

\* lines 1024-1060: three selectors, the XPath, the script; none of them raises
RunSave ==
    /\ Step("save", "final_url")
    /\ \E clicked \in BOOLEAN : save_clicked' = clicked
    /\ UNCHANGED <<runResult, navAttempt, imap_user, imap_pass, DISCORD_WEBHOOK_URL, otp,
                   entered, prefsFailed, final_url, notified>>

\* line 1062: sb.cdp.get_current_url(), unguarded
RunFinalUrl ==
    /\ \/ Step("final_url", "report") /\ \E url \in {"mydatasuccess", "other"} : final_url' = url
       \/ Step("final_url", "except") /\ UNCHANGED final_url
    /\ UNCHANGED <<runResult, navAttempt, imap_user, imap_pass, DISCORD_WEBHOOK_URL, otp,
                   entered, prefsFailed, save_clicked, notified>>

NotifyAlways(url, webhook) == 1

\* lines 1063-1069 and 1086-1088: the calls that reach requests.post
Notify(url, webhook) ==
    IF url = "mydatasuccess" /\ ~Falsy(webhook) THEN 1 ELSE 0

\* lines 1063-1073: notify on the success fragment, return True either way
RunReport ==
    /\ runPc = "report"
    /\ runTrace' = Append(runTrace, "report")
    /\ notified' = notified + Notify(final_url, DISCORD_WEBHOOK_URL)
    /\ Return("True")
    /\ UNCHANGED <<navAttempt, imap_user, imap_pass, DISCORD_WEBHOOK_URL, otp, entered,
                   prefsFailed, save_clicked, final_url>>

\* lines 1081-1083: except Exception: return False
RunExcept ==
    /\ runPc = "except"
    /\ runTrace' = Append(runTrace, "except")
    /\ Return("False")
    /\ UNCHANGED <<navAttempt, imap_user, imap_pass, DISCORD_WEBHOOK_URL, otp, entered,
                   prefsFailed, save_clicked, final_url, notified>>

Range(seq) == {seq[i] : i \in DOMAIN seq}

\* the steps that follow the entry of the code
LaterSteps == {"verify", "profile", "sports", "teams", "save", "final_url", "report"}

Aborted ==
    /\ runPc = "done"
    /\ runResult = "False"
    /\ Range(runTrace) \cap LaterSteps = {}
    /\ save_clicked = FALSE
    /\ notified = 0

C13_NeverPropagates == runResult # "raised"

Positions(step) == {k \in 1..Len(runTrace) : runTrace[k] = step}

\* C26: the mailbox credentials are tested only after the form has been filled
\* and submitted and the wait for the OTP page is over; get_otp is not called
\* when one of the two is missing, and is called at most once in a run.
C26_CredentialsThenOtp ==
    /\ \A k \in Positions("credentials") :
          /\ k >= 3
          /\ runTrace[k - 1] = "wait"
          /\ runTrace[k - 2] = "form"
    /\ Cardinality(Positions("credentials")) <= 1
    /\ Cardinality(Positions("get_otp")) <= 1
    /\ \A k \in Positions("get_otp") :
          /\ k >= 2
          /\ runTrace[k - 1] = "credentials"
          /\ ~Falsy(imap_user)
          /\ ~Falsy(imap_pass)
    /\ runPc = "get_otp" => ~Falsy(imap_user) /\ ~Falsy(imap_pass)
    /\ (Falsy(imap_user) \/ Falsy(imap_pass)) => otp = None /\ entered = "none"

\* the user is set and the password is the empty string: the run ends at the test
C26_Witness ==
    /\ runPc = "done"
    /\ imap_user = <<"x">>
    /\ imap_pass = <<>>
    /\ runTrace[Len(runTrace)] = "credentials"
    /\ Positions("form") # {}
    /\ Positions("get_otp") = {}
    /\ runResult = "False"

(***************************************************************************)
(* load_row_by_index  (bot.py 105-151): the row of data.csv at an index.   *)
(* A file is its header line and its data lines, a line a sequence of      *)
(* cells, a cell and a column name a sequence of characters.               *)
(***************************************************************************)
VARIABLES
    csvPc,              \* "idle", "call" or "done"
    data_exists,        \* os.path.exists(data_path)
    fieldnames,         \* the header line as csv.reader splits it
    csvLines,           \* the lines after the header, blank ones included
    row_index,
    row_data,           \* the values returned in the order of RequiredFields, None when none are
    reason              \* the reason returned, "None" for no error, "raised" for an exception

csvVars == <<csvPc, data_exists, fieldnames, csvLines, row_index, row_data, reason>>

MaxLines == 2

MaxRowIndex == 2

NEmail == <<"e", "m", "a", "i", "l">>

NPassword == <<"p", "a", "s", "s", "w", "o", "r", "d">>

NPass == <<"p", "a", "s", "s">>

NFirstName == <<"f", "i", "r", "s", "t", "_", "n", "a", "m", "e">>

NFirstname == <<"f", "i", "r", "s", "t", "n", "a", "m", "e">>

NFirst == <<"f", "i", "r", "s", "t">>

NLastName == <<"l", "a", "s", "t", "_", "n", "a", "m", "e">>

NLastname == <<"l", "a", "s", "t", "n", "a", "m", "e">>

NLast == <<"l", "a", "s", "t">>

NZipCode == <<"z", "i", "p", "_", "c", "o", "d", "e">>

NZipcode == <<"z", "i", "p", "c", "o", "d", "e">>

NZip == <<"z", "i", "p">>

NEmailPadded == <<" ", "E", "m", "a", "i", "l", " ">>

NPassUpper == <<"P", "A", "S", "S">>

NFirstSpaced == <<"F", "i", "r", "s", "t", " ", "N", "a", "m", "e">>

NLastDashed == <<"l", "a", "s", "t", "-", "n", "a", "m", "e">>

NZipUpper == <<"Z", "I", "P">>

NNotes == <<"n", "o", "t", "e", "s">>

FieldUpper == <<"E", "M", "A", "I", "L", "P", "S", "F", "N", "Z">>

FieldLower == <<"e", "m", "a", "i", "l", "p", "s", "f", "n", "z">>

\* str.lower on the letters of the column names
lower(s) ==
    [i \in 1..Len(s) |->
        IF \E k \in 1..Len(FieldUpper) : FieldUpper[k] = s[i]
        THEN FieldLower[CHOOSE k \in 1..Len(FieldUpper) : FieldUpper[k] = s[i]]
        ELSE s[i]]

\* line 106: name.strip().lower().replace(" ", "_").replace("-", "_")
normalize_field(name) ==
    ReplaceAll(ReplaceAll(lower(Trim(name)), <<" ">>, <<"_">>), <<"-">>, <<"_">>)

\* lines 110-115: the original name of the first candidate the header holds;
\* of two columns with one normalized name the dict keeps the later
resolve_column(names, candidates) ==
    LET Named(key) == {i \in 1..Len(names) : names[i] # <<>> /\ normalize_field(names[i]) = key}
        Hits == {c \in 1..Len(candidates) : Named(normalize_field(candidates[c])) # {}}
    IN  IF Hits = {} THEN None
        ELSE LET c == CHOOSE h \in Hits : \A g \in Hits : h <= g
                 N == Named(normalize_field(candidates[c]))
             IN  names[CHOOSE i \in N : \A j \in N : j <= i]

RequiredFields == <<"email", "password", "first_name", "last_name", "zip_code">>

\* lines 128-132
Candidates ==
    [email |-> <<NEmail>>,
     password |-> <<NPassword, NPass>>,
     first_name |-> <<NFirstName, NFirstname, NFirst>>,
     last_name |-> <<NLastName, NLastname, NLast>>,
     zip_code |-> <<NZipCode, NZipcode, NZip>>]

Keys(names) == [f \in DOMAIN Candidates |-> resolve_column(names, Candidates[f])]

\* csv.DictReader: blank lines are skipped
DataRows(lines) == SelectSeq(lines, LAMBDA r : r # <<>>)

\* the dict of a data row: a column the line is too short for holds None, of
\* two columns with one name the later wins
Cell(names, line, key) ==
    LET i == CHOOSE k \in 1..Len(names) :
                 names[k] = key /\ \A j \in 1..Len(names) : names[j] = key => j <= k
    IN  IF i <= Len(line) THEN line[i] ELSE None

Loaded(row, why) == [row |-> row, reason |-> why]

\* lines 139-148: the record of the selected row; None.strip() raises
SelectedRow(names, line) ==
    LET keys == Keys(names)
        raw == [f \in DOMAIN Candidates |-> Cell(names, line, keys[f])]
        data == [i \in 1..Len(RequiredFields) |-> Trim(raw[RequiredFields[i]])]
    IN  IF \E f \in DOMAIN Candidates : raw[f] = None THEN Loaded(None, "raised")
        ELSE IF \E i \in 1..Len(data) : data[i] = <<>> THEN Loaded(None, "missing_values")
        ELSE Loaded(data, "None")

\* lines 118-151
load_row_by_indexRowsFirst(index, exists, names, lines) ==
    IF index < 0 THEN Loaded(None, "invalid_index")
    ELSE IF ~exists THEN Loaded(None, "missing_data")
    ELSE IF names = <<>> THEN Loaded(None, "missing_header")
    ELSE IF index + 1 > Len(DataRows(lines)) THEN Loaded(None, "no_rows")
    ELSE IF \E f \in DOMAIN Candidates : Keys(names)[f] = None
         THEN Loaded(None, "missing_columns")
    ELSE SelectedRow(names, DataRows(lines)[index + 1])

load_row_by_index(index, exists, names, lines) ==
    IF index < 0 THEN Loaded(None, "invalid_index")
    ELSE IF ~exists THEN Loaded(None, "missing_data")
    ELSE IF names = <<>> THEN Loaded(None, "missing_header")
    ELSE IF \E f \in DOMAIN Candidates : Keys(names)[f] = None
         THEN Loaded(None, "missing_columns")
    ELSE IF index + 1 <= Len(DataRows(lines))
         THEN SelectedRow(names, DataRows(lines)[index + 1])
    ELSE Loaded(None, "no_rows")

\* headers of data.csv
HeaderCanonical == <<NEmail, NPassword, NFirstName, NLastName, NZipCode>>

HeaderVariant == <<NNotes, NZipUpper, NLastDashed, NFirstSpaced, NPassUpper, NEmailPadded>>

HeaderNoPassword == <<NEmail, NFirst, NLast, NZip>>

Headers == {HeaderCanonical, HeaderVariant, HeaderNoPassword, <<>>}

Filled == <<"v">>

FullLine(n) == [i \in 1..n |-> Filled]

\* data lines for a header of n columns: complete, one cell empty or blank,
\* one cell padded, cut short, blank
LinesFor(n) ==
    {FullLine(n), <<>>}
      \cup {[FullLine(n) EXCEPT ![i] = c] : i \in 1..n, c \in {<<>>, <<" ">>}}
      \cup {[FullLine(n) EXCEPT ![1] = <<" ", "v", " ">>] : k \in {n} \ {0}}
      \cup {SubSeq(FullLine(n), 1, k) : k \in 1..(n - 1)}

CsvInit ==
    /\ csvPc = "call"
    /\ data_exists \in BOOLEAN
    /\ fieldnames \in Headers
    /\ csvLines \in AllSeqs(LinesFor(Len(fieldnames)), MaxLines)
    /\ row_index \in -1..MaxRowIndex
    /\ row_data = None
    /\ reason = "None"

CsvIdle ==
    /\ csvPc = "idle"
    /\ data_exists = FALSE
    /\ fieldnames = <<>>
    /\ csvLines = <<>>
    /\ row_index = 0
    /\ row_data = None
    /\ reason = "None"

LoadRow ==
    /\ csvPc = "call"
    /\ LET r == load_row_by_index(row_index, data_exists, fieldnames, csvLines)
       IN  row_data' = r.row /\ reason' = r.reason
    /\ csvPc' = "done"
    /\ UNCHANGED <<data_exists, fieldnames, csvLines, row_index>>

HeaderComplete(names) == \A f \in DOMAIN Candidates : Keys(names)[f] # None

\* the position of the column of a required field in a complete header
ColumnOf(names, f) == CHOOSE i \in 1..Len(names) : names[i] = Keys(names)[f]

\* a required field of the line is empty after trimming, or the line ends before it
LacksValue(names, line) ==
    \E f \in DOMAIN Candidates :
        \/ ColumnOf(names, f) > Len(line)
        \/ Trim(line[ColumnOf(names, f)]) = <<>>

Readable == row_index >= 0 /\ data_exists /\ fieldnames # <<>>

\* C16: for a data file that exists, with a header and an index that is not
\* negative, load_row_by_index reports "missing_columns" when the header lacks
\* a required column; with a complete header it reports "no_rows" for an index
\* beyond the last data row and "missing_values" for a selected row lacking a
\* required value; it returns a record with no error only when all five
\* values are non-empty, and in every error case returns no record and raises
\* nothing.
C16_LoaderReports ==
    csvPc = "done" =>
      /\ reason # "raised"
      /\ (Readable /\ ~HeaderComplete(fieldnames)) => reason = "missing_columns"
      /\ (Readable /\ HeaderComplete(fieldnames) /\ row_index >= Len(DataRows(csvLines)))
            => reason = "no_rows"
      /\ (Readable /\ HeaderComplete(fieldnames) /\ row_index < Len(DataRows(csvLines))
             /\ LacksValue(fieldnames, DataRows(csvLines)[row_index + 1]))
            => reason = "missing_values"
      /\ reason = "None" <=> row_data # None
      /\ row_data # None => \A i \in 1..Len(RequiredFields) : row_data[i] # <<>>

\* C25: load_row_by_index reports a negative index before a missing file, a
\* missing file before an empty header, an empty header before a required
\* column that is not resolved, and that before anything about the rows: an
\* index beyond the last row of a file with an incomplete header gives
\* "missing_columns"; with a complete header the outcome is that of the
\* requested row alone, whatever the rows before it hold.
C25_ErrorPrecedence ==
    csvPc = "done" =>
      /\ row_index < 0 => reason = "invalid_index"
      /\ (row_index >= 0 /\ ~data_exists) => reason = "missing_data"
      /\ (row_index >= 0 /\ data_exists /\ fieldnames = <<>>) => reason = "missing_header"
      /\ (Readable /\ ~HeaderComplete(fieldnames)) => reason = "missing_columns"
      /\ (Readable /\ HeaderComplete(fieldnames)) =>
           /\ reason \in {"no_rows", "missing_values", "None", "raised"}
           /\ reason = "no_rows" <=> row_index >= Len(DataRows(csvLines))
           /\ row_index < Len(DataRows(csvLines)) =>
                LET alone == load_row_by_index(0, TRUE, fieldnames,
                                               <<DataRows(csvLines)[row_index + 1]>>)
                IN  reason = alone.reason /\ row_data = alone.row
      /\ reason # "None" => row_data = None

\* the header lacks the password column and the index is beyond the last row
C25_Witness ==
    /\ csvPc = "done"
    /\ Readable
    /\ fieldnames = HeaderNoPassword
    /\ Len(DataRows(csvLines)) = 1
    /\ row_index = 2
    /\ reason = "missing_columns"
    /\ row_data = None

\* the same with lines cut short left aside
C16_CompleteLines ==
    (csvPc = "done" /\ \A i \in 1..Len(csvLines) : Len(csvLines[i]) \in {0, Len(fieldnames)})
      => C16_LoaderReports

(***************************************************************************)
(* main  (bot.py 1114-1167): the command line, the row loader, the run,    *)
(* and the exit status of the process.                                     *)
(***************************************************************************)
VARIABLES
    mainPc,             \* "idle", "parse", "mode", "run", "running", "exited"
    rowArg,             \* --row-index: "absent", "integer" (its value is row_index), "text"
    emailArg,           \* args.email
    otherArgs,          \* all of --password --first --last --zip given and non-empty
    exit_status         \* the status the process ended with, -1 while it runs

mainVars == <<mainPc, rowArg, emailArg, otherArgs, exit_status>>

\* argparse ends the process with this status on a usage error
UsageStatus == 2

\* the interpreter ends the process with this status on an uncaught exception
TracebackStatus == 1

\* data.csv as main finds it
MainFiles ==
    {<<HeaderCanonical, <<>>>>,
     <<HeaderCanonical, <<FullLine(5)>>>>,
     <<HeaderCanonical, <<[FullLine(5) EXCEPT ![2] = <<" ">>]>>>>,
     <<HeaderCanonical, <<SubSeq(FullLine(5), 1, 4)>>>>,
     <<HeaderNoPassword, <<FullLine(4)>>>>,
     <<<<>>, <<>>>>}

MainInit ==
    /\ mainPc = "parse"
    /\ rowArg \in {"absent", "integer", "text"}
    /\ emailArg \in {None, <<>>, <<"x">>}
    /\ otherArgs \in BOOLEAN
    /\ exit_status = -1
    /\ csvPc = "idle"
    /\ data_exists \in BOOLEAN
    /\ \E file \in MainFiles : fieldnames = file[1] /\ csvLines = file[2]
    /\ row_index \in IF rowArg = "integer" THEN -1..1 ELSE {0}
    /\ row_data = None
    /\ reason = "None"

MainIdle ==
    /\ mainPc = "idle"
    /\ rowArg = "absent"
    /\ emailArg = None
    /\ otherArgs = FALSE
    /\ exit_status = -1

Exit(status) ==
    /\ exit_status' = status
    /\ mainPc' = "exited"

\* lines 1115-1123: parse_args; type=int rejects text with a usage error
MainParse ==
    /\ mainPc = "parse"
    /\ IF rowArg = "text" THEN Exit(UsageStatus)
       ELSE mainPc' = "mode" /\ UNCHANGED exit_status
    /\ UNCHANGED <<rowArg, emailArg, otherArgs, csvVars, runVars>>

RowStatusNoRowsFails(why) == IF why = "None" THEN -1 ELSE 1

\* lines 1127-1141: the status main exits with for a reason, -1 to go on to the run
RowStatus(why) ==
    IF why = "raised" THEN TracebackStatus
    ELSE IF why = "no_rows" THEN 0
    ELSE IF why = "None" THEN -1
    ELSE 1

\* lines 1125-1141
MainRowMode ==
    /\ mainPc = "mode"
    /\ rowArg = "integer"
    /\ LET r == load_row_by_index(row_index, data_exists, fieldnames, csvLines)
       IN  /\ row_data' = r.row
           /\ reason' = r.reason
           /\ IF RowStatus(r.reason) = -1
              THEN mainPc' = "run" /\ UNCHANGED exit_status
              ELSE Exit(RowStatus(r.reason))
    /\ csvPc' = "done"
    /\ UNCHANGED <<rowArg, emailArg, otherArgs, data_exists, fieldnames, csvLines, row_index,
                   runVars>>

\* lines 1151-1155
MainDirectMode ==
    /\ mainPc = "mode"
    /\ rowArg = "absent"
    /\ ~Falsy(emailArg)
    /\ IF ~otherArgs THEN Exit(1)
       ELSE mainPc' = "run" /\ UNCHANGED exit_status
    /\ UNCHANGED <<rowArg, emailArg, otherArgs, csvVars, runVars>>

\* line 1167: parser.error
MainUsage ==
    /\ mainPc = "mode"
    /\ rowArg = "absent"
    /\ Falsy(emailArg)
    /\ Exit(UsageStatus)
    /\ UNCHANGED <<rowArg, emailArg, otherArgs, csvVars, runVars>>

\* lines 1143 and 1156: run_registration is called; the environment is what it is
MainCallRun ==
    /\ mainPc = "run"
    /\ mainPc' = "running"
    /\ runPc' = "create"
    /\ imap_user' \in EnvValues
    /\ imap_pass' \in EnvValues
    /\ DISCORD_WEBHOOK_URL' \in {<<>>, <<"x">>}
    /\ UNCHANGED <<runResult, runTrace, navAttempt, otp, entered, prefsFailed, save_clicked,
                   final_url, notified>>
    /\ UNCHANGED <<rowArg, emailArg, otherArgs, exit_status, csvVars>>

\* lines 1150 and 1165: sys.exit(0 if success else 1); an exception out of
\* run_registration is caught nowhere
MainExit ==
    /\ mainPc = "running"
    /\ runPc = "done"
    /\ Exit(CASE runResult = "True" -> 0
              [] runResult = "False" -> 1
              [] OTHER -> TracebackStatus)
    /\ UNCHANGED <<rowArg, emailArg, otherArgs, csvVars, runVars>>

VARIABLES
    opKind,             \* "click", "strict", "safe" or "type"; "idle" outside a call
    opPc,               \* the sb.cdp call about to be made; "done" after the return
    opText,             \* the text argument of a select
    opCand,             \* index of the candidate of select_option_by_text_safe
    opCalls,            \* the sb.cdp calls made, with the strategy they belong to
    opResult            \* "none" during the call, then "True", "False", "None", or "raised"

opVars == <<opKind, opPc, opText, opCand, opCalls, opResult>>

OpKinds == {"click", "strict", "safe", "type"}

OpTexts == {TAmpF, TAndF, Basketball, <<>>}

OpInit ==
    /\ opKind \in OpKinds
    /\ opPc = "wait"
    /\ opText \in IF opKind = "safe" THEN OpTexts ELSE {Basketball}
    /\ opCand = 1
    /\ opCalls = <<>>
    /\ opResult = "none"

OpIdle ==
    /\ opKind = "idle"
    /\ opPc = "done"
    /\ opText = <<>>
    /\ opCand = 1
    /\ opCalls = <<>>
    /\ opResult = "none"

Made(fn, strategy, outcome) ==
    opCalls' = Append(opCalls, [fn |-> fn, strategy |-> strategy, outcome |-> outcome])

Returns(value) ==
    /\ opResult' = value
    /\ opPc' = "done"

Outcome(raises) == IF raises THEN "raised" ELSE "ok"

\* lines 193-200: the try block of human_click
ClickNative ==
    /\ opKind = "click"
    /\ \E raises \in BOOLEAN :
         \/ /\ opPc = "wait"
            /\ Made("wait_for_element", "native", Outcome(raises))
            /\ opPc' = (IF raises THEN "direct" ELSE "presleep")
            /\ UNCHANGED opResult
         \/ /\ opPc = "presleep"
            /\ Made("sleep", "native", Outcome(raises))
            /\ opPc' = (IF raises THEN "direct" ELSE "click")
            /\ UNCHANGED opResult
         \/ /\ opPc = "click"
            /\ Made("click", "native", Outcome(raises))
            /\ opPc' = (IF raises THEN "direct" ELSE "settle")
            /\ UNCHANGED opResult
         \/ /\ opPc = "settle"
            /\ Made("sleep", "native", Outcome(raises))
            /\ IF raises THEN opPc' = "direct" /\ UNCHANGED opResult
               ELSE Returns("True")
    /\ UNCHANGED <<opKind, opText, opCand>>

\* lines 201-207: the handler of human_click
ClickDirect ==
    /\ opKind = "click"
    /\ opPc = "direct"
    /\ \E raises \in BOOLEAN :
         /\ Made("click", "direct", Outcome(raises))
         /\ Returns(IF raises THEN "False" ELSE "True")
    /\ UNCHANGED <<opKind, opText, opCand>>

\* lines 211-219: the try block of select_option_by_text_strict
StrictNative ==
    /\ opKind = "strict"
    /\ \E raises \in BOOLEAN :
         \/ /\ opPc = "wait"
            /\ Made("wait_for_element", "native", Outcome(raises))
            /\ opPc' = (IF raises THEN "script" ELSE "select")
            /\ UNCHANGED opResult
         \/ /\ opPc = "select"
            /\ Made("select_option_by_text", "native", Outcome(raises))
            /\ opPc' = (IF raises THEN "script" ELSE "settle")
            /\ UNCHANGED opResult
         \/ /\ opPc = "settle"
            /\ Made("sleep", "native", Outcome(raises))
            /\ IF raises THEN opPc' = "script" /\ UNCHANGED opResult
               ELSE Returns("True")
    /\ UNCHANGED <<opKind, opText, opCand>>

ScriptOutcomes == {"ok", "false", "raised"}

ScriptResultGuarded(outcome) == IF outcome = "ok" THEN "True" ELSE "False"

\* lines 243-244 and 323-324: sb.cdp.evaluate(js_code) outside every try
ScriptResult(outcome) ==
    CASE outcome = "ok" -> "True"
      [] outcome = "false" -> "False"
      [] OTHER -> "raised"

\* lines 221-244 and 279-324: the script of the two selects
SelectScript ==
    /\ opKind \in {"strict", "safe"}
    /\ opPc = "script"
    /\ \E outcome \in ScriptOutcomes :
         /\ Made("evaluate", "script", outcome)
         /\ Returns(ScriptResult(outcome))
    /\ UNCHANGED <<opKind, opText, opCand>>

\* lines 269-275: after a candidate failed, the next one, or the script
NextCandidate ==
    IF opCand < Len(alt_text_candidates(opText))
    THEN opPc' = "select" /\ opCand' = opCand + 1
    ELSE opPc' = "script" /\ UNCHANGED opCand

\* lines 265-277: the try block of select_option_by_text_safe
SafeNative ==
    /\ opKind = "safe"
    /\ \E raises \in BOOLEAN :
         \/ /\ opPc = "wait"
            /\ Made("wait_for_element", "native", Outcome(raises))
            /\ opPc' = (IF raises \/ alt_text_candidates(opText) = <<>> THEN "script" ELSE "select")
            /\ UNCHANGED <<opResult, opCand>>
         \/ /\ opPc = "select"
            /\ Made("select_option_by_text", "native", Outcome(raises))
            /\ IF raises THEN NextCandidate ELSE opPc' = "settle" /\ UNCHANGED opCand
            /\ UNCHANGED opResult
         \/ /\ opPc = "settle"
            /\ Made("sleep", "native", Outcome(raises))
            /\ IF raises THEN NextCandidate /\ UNCHANGED opResult
               ELSE Returns("True") /\ UNCHANGED opCand
    /\ UNCHANGED <<opKind, opText>>

AfterInjectionAlwaysNative(outcome) == IF outcome = "raised" THEN "direct" ELSE "native_click"

\* lines 706-709: where human_type goes after sb.cdp.evaluate
AfterInjection(outcome) ==
    CASE outcome = "ok" -> "done"
      [] outcome = "false" -> "native_click"
      [] OTHER -> "direct"

\* lines 663-705: wait_for_element, then the script that sets the value
TypeScript ==
    /\ opKind = "type"
    /\ \/ /\ opPc = "wait"
          /\ \E raises \in BOOLEAN :
               /\ Made("wait_for_element", "script", Outcome(raises))
               /\ opPc' = (IF raises THEN "direct" ELSE "evaluate")
               /\ UNCHANGED opResult
       \/ /\ opPc = "evaluate"
          /\ \E outcome \in ScriptOutcomes :
               /\ Made("evaluate", "script", outcome)
               /\ IF AfterInjection(outcome) = "done" THEN Returns("None")
                  ELSE opPc' = AfterInjection(outcome) /\ UNCHANGED opResult
    /\ UNCHANGED <<opKind, opText, opCand>>

\* lines 708-711: if not result: sb.cdp.click, sb.cdp.type
TypeNative ==
    /\ opKind = "type"
    /\ \E raises \in BOOLEAN :
         \/ /\ opPc = "native_click"
            /\ Made("click", "native", Outcome(raises))
            /\ opPc' = (IF raises THEN "direct" ELSE "native_type")
            /\ UNCHANGED opResult
         \/ /\ opPc = "native_type"
            /\ Made("type", "native", Outcome(raises))
            /\ IF raises THEN opPc' = "direct" /\ UNCHANGED opResult
               ELSE Returns("None")
    /\ UNCHANGED <<opKind, opText, opCand>>

\* lines 713-718: the handler of human_type
TypeDirect ==
    /\ opKind = "type"
    /\ opPc = "direct"
    /\ \E raises \in BOOLEAN :
         /\ Made("type", "direct", Outcome(raises))
         /\ Returns("None")
    /\ UNCHANGED <<opKind, opText, opCand>>

\* C14: click, type and the two selects never raise to their caller.
C14_NeverRaises == opResult # "raised"

\* the order in which an operation goes through its strategies
StrategyOrder ==
    [click |-> <<"native", "direct">>,
     strict |-> <<"native", "script">>,
     safe |-> <<"native", "script">>,
     type |-> <<"script", "native", "direct">>]

Rank(order, strategy) == CHOOSE k \in 1..Len(order) : order[k] = strategy

CallsOf(fn) == {i \in 1..Len(opCalls) : opCalls[i].fn = fn}

CallsIn(strategy) == {i \in 1..Len(opCalls) : opCalls[i].strategy = strategy}

\* the call before a change of strategy failed (or there was no candidate to select)
Failed(call) ==
    \/ call.outcome = "raised"
    \/ opKind = "type" /\ call.fn = "evaluate" /\ call.outcome = "false"
    \/ opKind = "safe" /\ call.fn = "wait_for_element" /\ alt_text_candidates(opText) = <<>>

InOrder(order) ==
    /\ \A i \in 1..Len(opCalls) : \E k \in 1..Len(order) : order[k] = opCalls[i].strategy
    /\ \A i \in 1..Len(opCalls), j \in 1..Len(opCalls) :
         i < j => Rank(order, opCalls[i].strategy) <= Rank(order, opCalls[j].strategy)

\* C19: click goes native path then direct click, the selects native path then
\* script, type script then native click-and-type then direct type; a later
\* strategy is attempted only when the call before it raised (for type also
\* when the script returned a falsy result, for the safe select also when
\* there is no candidate text), never after a path ran to its end; there is at
\* most one direct retry, one script evaluation, one native select per
\* candidate text, and never more than two clicks in a click.
C19_StrategyOrder ==
    /\ [](opKind \in OpKinds =>
            /\ InOrder(StrategyOrder[opKind])
            /\ \A i \in 2..Len(opCalls) :
                 IF opCalls[i].strategy # opCalls[i - 1].strategy
                 THEN Failed(opCalls[i - 1])
                 ELSE opCalls[i - 1].outcome = "ok" \/ opKind = "safe"
            /\ Cardinality(CallsIn("direct")) <= 1
            /\ Cardinality(CallsOf("evaluate")) <= 1
            /\ Cardinality(CallsOf("select_option_by_text"))
                  <= (IF opKind = "safe" THEN Len(alt_text_candidates(opText)) ELSE 1)
            /\ opKind = "click" => Cardinality(CallsOf("click")) <= 2
            /\ opPc = "done" <=> opResult # "none")
    /\ [][opPc = "done" => UNCHANGED opCalls]_opVars

C19_Witness ==
    /\ opKind = "type"
    /\ opPc = "done"
    /\ Len(opCalls) = 5
    /\ opCalls[2] = [fn |-> "evaluate", strategy |-> "script", outcome |-> "false"]
    /\ opCalls[4] = [fn |-> "type", strategy |-> "native", outcome |-> "raised"]
    /\ opCalls[5] = [fn |-> "type", strategy |-> "direct", outcome |-> "ok"]

\* C19 as stated: for click, type and select alike the order is native, then
\* a direct retry, then (type and select) the script, each only after every
\* earlier strategy was attempted and failed.
C19_NativeDirectScript ==
    opKind \in OpKinds =>
      /\ InOrder(<<"native", "direct", "script">>)
      /\ CallsIn("direct") # {} => CallsIn("native") # {}
      /\ CallsIn("script") # {} => (CallsIn("native") # {} /\ CallsIn("direct") # {})
      /\ opKind = "click" => Cardinality(CallsOf("click")) <= 2

(***************************************************************************)
(* enter_otp_code  (bot.py 400-521): the fill script is evaluated again    *)
(* and again until it reports success or the time is up.  Time is counted  *)
(* in pauses of 0.8 s.                                                     *)
(***************************************************************************)
VARIABLES
    eoPc,               \* "idle", "start", "check", "attempt", "pause", "diagnose", "done"
    eoOtp,              \* the otp argument
    eoTimeout,          \* the timeout argument, in pauses
    eoClock,            \* time.time()
    eoEnd,              \* end = time.time() + timeout
    eoLast,             \* last: "None", "ok" or "fail"
    eoAttempts,         \* evaluations of js_fill
    eoPauses,           \* sb.cdp.sleep(0.8) calls
    eoProbes,           \* page calls of the diagnostics after the loop
    eoResult            \* "none", "True", "False", or "raised"

eoVars == <<eoPc, eoOtp, eoTimeout, eoClock, eoEnd, eoLast, eoAttempts, eoPauses, eoProbes,
            eoResult>>

MaxTimeout == 3

\* the longest evaluation of js_fill, in pauses
MaxEvaluate == 1

EoOtps == {None, <<>>, <<" ">>, OtpCode, <<" ">> \o OtpCode \o <<" ">>}

EoInit ==
    /\ eoPc = "start"
    /\ eoOtp \in EoOtps
    /\ eoTimeout \in 0..MaxTimeout
    /\ eoClock = 0
    /\ eoEnd = 0
    /\ eoLast = "None"
    /\ eoAttempts = 0
    /\ eoPauses = 0
    /\ eoProbes = 0
    /\ eoResult = "none"

EoIdle ==
    /\ eoPc = "idle"
    /\ eoOtp = None
    /\ eoTimeout = 0
    /\ eoClock = 0
    /\ eoEnd = 0
    /\ eoLast = "None"
    /\ eoAttempts = 0
    /\ eoPauses = 0
    /\ eoProbes = 0
    /\ eoResult = "none"

\* line 401: (otp or "").strip()
Stripped(code) == Trim(IF Falsy(code) THEN <<>> ELSE code)

\* lines 401-403 and 499-500
EoStart ==
    /\ eoPc = "start"
    /\ IF Stripped(eoOtp) = <<>>
       THEN eoResult' = "False" /\ eoPc' = "done" /\ UNCHANGED eoEnd
       ELSE eoEnd' = eoClock + eoTimeout /\ eoPc' = "check" /\ UNCHANGED eoResult
    /\ UNCHANGED <<eoOtp, eoTimeout, eoClock, eoLast, eoAttempts, eoPauses, eoProbes>>

TimeLeftInclusive(now, deadline) == now <= deadline

\* line 501: while time.time() < end
TimeLeft(now, deadline) == now < deadline

EoCheck ==
    /\ eoPc = "check"
    /\ eoPc' = (IF TimeLeft(eoClock, eoEnd) THEN "attempt" ELSE "diagnose")
    /\ UNCHANGED <<eoOtp, eoTimeout, eoClock, eoEnd, eoLast, eoAttempts, eoPauses, eoProbes,
                   eoResult>>

\* lines 502-508: one evaluation of js_fill; it reports ok, reports a failure, or raises
EoAttempt ==
    /\ eoPc = "attempt"
    /\ eoAttempts' = eoAttempts + 1
    /\ \E took \in 0..MaxEvaluate : eoClock' = eoClock + took
    /\ \E outcome \in {"ok", "fail", "raised"} :
         CASE outcome = "ok" -> eoLast' = "ok" /\ eoResult' = "True" /\ eoPc' = "done"
           [] outcome = "fail" -> eoLast' = "fail" /\ eoPc' = "pause" /\ UNCHANGED eoResult
           [] OTHER -> eoLast' = "None" /\ eoPc' = "pause" /\ UNCHANGED eoResult
    /\ UNCHANGED <<eoOtp, eoTimeout, eoEnd, eoPauses, eoProbes>>

\* line 510: sb.cdp.sleep(0.8), outside the try
EoPause ==
    /\ eoPc = "pause"
    /\ eoPauses' = eoPauses + 1
    /\ \E raises \in BOOLEAN :
         IF raises THEN eoResult' = "raised" /\ eoPc' = "done" /\ UNCHANGED eoClock
         ELSE eoClock' = eoClock + 1 /\ eoPc' = "check" /\ UNCHANGED eoResult
    /\ UNCHANGED <<eoOtp, eoTimeout, eoEnd, eoLast, eoAttempts, eoProbes>>

\* lines 512-521: the diagnostics, guarded, then return False
EoDiagnose ==
    /\ eoPc = "diagnose"
    /\ \E made \in 1..2 : eoProbes' = made
    /\ eoResult' = "False"
    /\ eoPc' = "done"
    /\ UNCHANGED <<eoOtp, eoTimeout, eoClock, eoEnd, eoLast, eoAttempts, eoPauses>>

\* C18: an empty or blank code returns False with no page call at all.
\* Otherwise the fill is attempted while time is left, a pause following every
\* attempt that did not succeed, one that raised included; the call returns
\* True exactly when an attempt succeeded, False only on an empty code or
\* when the time was up, and is left by the exception when a pause raises.
C18_FillLoop ==
    /\ [](eoPc = "done" =>
            /\ eoResult \in {"True", "False", "raised"}
            /\ eoResult = "True" <=> eoLast = "ok"
            /\ eoResult = "False" =>
                 \/ Stripped(eoOtp) = <<>>
                 \/ eoClock >= eoEnd /\ eoLast # "ok" /\ eoPauses = eoAttempts
            /\ eoResult = "raised" => eoLast # "ok" /\ eoPauses = eoAttempts
            /\ Stripped(eoOtp) = <<>> => eoAttempts = 0 /\ eoPauses = 0 /\ eoProbes = 0)
    /\ [](eoAttempts <= eoTimeout /\ eoPauses \in {eoAttempts - 1, eoAttempts})
    /\ [](eoPc = "check" => eoPauses = eoAttempts)
    /\ [][eoPc = "attempt" => (eoPc' = "pause" \/ eoResult' = "True")]_eoVars

C18_Witness ==
    /\ eoPc = "done"
    /\ eoResult = "False"
    /\ eoTimeout = 3
    /\ eoAttempts = 2
    /\ eoPauses = 2
    /\ eoLast = "None"
    /\ eoClock = 3

\* C18 as stated: the attempts go on until one succeeds or the time is up, and
\* the call returns True or False.
C18_UntilSuccessOrTimeout ==
    eoPc = "done" =>
      /\ eoResult \in {"True", "False"}
      /\ eoLast = "ok" \/ eoClock >= eoEnd \/ Stripped(eoOtp) = <<>>

(***************************************************************************)
(* The fill script of enter_otp_code  (bot.py 405-497): one attempt over   *)
(* the page, the top document first, then the frames.  A document is the   *)
(* sequence of its inputs in document order.                               *)
(***************************************************************************)
VARIABLES
    flPc,               \* "idle", "top", "frames" or "done"
    flCode,             \* const code
    flTop,              \* the inputs of the top document
    flFrames,           \* the iframes of the top document, in document order
    flFrame,            \* index of the iframe tried next
    flResult            \* the object returned: ok, mode, via

flVars == <<flPc, flCode, flTop, flFrames, flFrame, flResult>>

MaxSplit == 7

MaxFrames == 2

\* the number of split inputs the script asks for and fills (lines 472-473)
SplitCount == 6

\* an iframe: its inputs, and whether contentDocument gives them
Frame(doc, reachable) == [doc |-> doc, reachable |-> reachable]

Field(visible, autocomplete, name, id, label, placeholder, maxlength) ==
    [visible |-> visible, autocomplete |-> autocomplete, name |-> name, id |-> id,
     label |-> label, placeholder |-> placeholder, maxlength |-> maxlength, value |-> None]

\* line 456: /otp|one.?time|verification|verify|code/i on the name
NameSuggestsCode(name) == name \in {"otp", "one-time", "onetime", "verification", "verify", "code"}

\* lines 456-457: /otp|verification|code/i on id, aria-label and placeholder
SuggestsCode(text) == text \in {"otp", "verification", "code"}

\* Array.prototype.find: the first index whose input passes, 0 for none
FirstOf(S) == IF S = {} THEN 0 ELSE CHOOSE i \in S : \A j \in S : i <= j

\* line 446: collectInputs keeps the visible inputs
Visible(doc) == {i \in 1..Len(doc) : doc[i].visible}

\* lines 455-457: the three searches for the single input, in this order
Single(doc) ==
    LET flagged == FirstOf({i \in Visible(doc) : doc[i].autocomplete = "one-time-code"})
        named == FirstOf({i \in Visible(doc) :
                        NameSuggestsCode(doc[i].name) \/ SuggestsCode(doc[i].id)})
        labelled == FirstOf({i \in Visible(doc) :
                        SuggestsCode(doc[i].label) \/ SuggestsCode(doc[i].placeholder)})
    IN  IF flagged # 0 THEN flagged
        ELSE IF named # 0 THEN named
        ELSE labelled

SplitAny(doc) == SelectSeq([i \in 1..Len(doc) |-> i], LAMBDA i : doc[i].maxlength = 1)

\* lines 465-469: the visible inputs with maxlength 1, in document order
Split(doc) == SelectSeq([i \in 1..Len(doc) |-> i],
                        LAMBDA i : doc[i].visible /\ doc[i].maxlength = 1)

\* line 476: code[idx] || ''
Digit(code, k) == IF k <= Len(code) THEN <<code[k]>> ELSE <<>>

Filled6(doc, split, code) ==
    [i \in 1..Len(doc) |->
        IF \E k \in 1..SplitCount : split[k] = i
        THEN [doc[i] EXCEPT !.value = Digit(code, CHOOSE k \in 1..SplitCount : split[k] = i)]
        ELSE doc[i]]

Report(ok, mode, via, doc) == [ok |-> ok, mode |-> mode, via |-> via, doc |-> doc]

\* lines 449-482: tryFillInRoot; the report and the document as it leaves it
tryFillInRoot(doc, code) ==
    IF Visible(doc) = {} THEN Report(FALSE, "no inputs", "top", doc)
    ELSE IF Single(doc) # 0
         THEN Report(TRUE, "single", "top", [doc EXCEPT ![Single(doc)].value = code])
    ELSE IF Len(Split(doc)) >= SplitCount
         THEN Report(TRUE, "split", "top", Filled6(doc, Split(doc), code))
    ELSE Report(FALSE, "no otp pattern", "top", doc)

\* inputs a page may hold
Box == Field(TRUE, "off", "d", "", "", "", 1)

HiddenBox == Field(FALSE, "off", "d", "", "", "", 1)

Flagged == Field(TRUE, "one-time-code", "", "", "", "", 0)

HiddenFlagged == Field(FALSE, "one-time-code", "", "", "", "", 0)

NamedVerify == Field(TRUE, "off", "verify", "", "", "", 0)

IdVerify == Field(TRUE, "off", "", "verify", "", "", 0)

PlaceholderCode == Field(TRUE, "off", "email", "", "", "code", 0)

Plain == Field(TRUE, "off", "email", "email", "", "", 0)

Boxes(n, hidden) == [i \in 1..n |-> IF i = hidden THEN HiddenBox ELSE Box]

Extras == {<<>>, <<Plain>>, <<Flagged>>, <<HiddenFlagged>>, <<NamedVerify>>, <<IdVerify>>,
           <<PlaceholderCode>>, <<PlaceholderCode, Flagged>>, <<PlaceholderCode, NamedVerify>>}

\* documents: boxes, one of them possibly hidden, with other inputs before or after
Docs ==
    {Boxes(n, hidden) \o extra : n \in 0..MaxSplit, hidden \in {0, 1, SplitCount}, extra \in Extras}
      \cup {extra \o Boxes(n, 0) : n \in {SplitCount - 1, SplitCount}, extra \in Extras}

Frames ==
    {Frame(Boxes(SplitCount, 0), FALSE)}
      \cup {Frame(doc, TRUE) : doc \in {<<>>, Boxes(SplitCount, 0), Boxes(SplitCount - 1, 0),
                                        <<Flagged>>, <<Plain>>}}

FlCodes == {OtpCode, <<"1", "2", "3", "4">>}

FlInit ==
    /\ flPc = "top"
    /\ flCode \in FlCodes
    /\ flTop \in Docs
    /\ flFrames \in AllSeqs(Frames, MaxFrames)
    /\ flFrame = 1
    /\ flResult = Report(FALSE, "unknown", "none", <<>>)

FlIdle ==
    /\ flPc = "idle"
    /\ flCode = <<>>
    /\ flTop = <<>>
    /\ flFrames = <<>>
    /\ flFrame = 1
    /\ flResult = Report(FALSE, "unknown", "none", <<>>)

\* lines 484-485: let r = tryFillInRoot(document); if (r && r.ok) return r
FlTop ==
    /\ flPc = "top"
    /\ LET r == tryFillInRoot(flTop, flCode)
       IN  /\ flTop' = r.doc
           /\ flResult' = [r EXCEPT !.doc = <<>>]
           /\ flPc' = (IF r.ok THEN "done" ELSE "frames")
    /\ UNCHANGED <<flCode, flFrames, flFrame>>

\* lines 487-495: the next iframe; one without a document is passed over
FlFrame ==
    /\ flPc = "frames"
    /\ flFrame <= Len(flFrames)
    /\ IF ~flFrames[flFrame].reachable
       THEN flFrame' = flFrame + 1 /\ UNCHANGED <<flPc, flFrames, flResult>>
       ELSE LET rr == tryFillInRoot(flFrames[flFrame].doc, flCode)
            IN  IF rr.ok
                THEN /\ flFrames' = [flFrames EXCEPT ![flFrame].doc = rr.doc]
                     /\ flResult' = [rr EXCEPT !.doc = <<>>, !.via = "iframe"]
                     /\ flPc' = "done"
                     /\ UNCHANGED flFrame
                ELSE flFrame' = flFrame + 1 /\ UNCHANGED <<flPc, flFrames, flResult>>
    /\ UNCHANGED <<flCode, flTop>>

\* line 497: return r || {ok: false, reason: 'unknown'}
FlReturn ==
    /\ flPc = "frames"
    /\ flFrame > Len(flFrames)
    /\ flPc' = "done"
    /\ UNCHANGED <<flCode, flTop, flFrames, flFrame, flResult>>

\* an input that suggests a code field, as the attempt sees it
CodeLike(input) ==
    /\ input.visible
    /\ \/ input.autocomplete = "one-time-code"
       \/ NameSuggestsCode(input.name)
       \/ SuggestsCode(input.id)
       \/ SuggestsCode(input.label)
       \/ SuggestsCode(input.placeholder)

Written(doc) == {i \in 1..Len(doc) : doc[i].value # None}

VisibleBoxes(doc) == {i \in 1..Len(doc) : doc[i].visible /\ doc[i].maxlength = 1}

\* how many visible boxes stand at or before position i
BoxRank(doc, i) == Cardinality({j \in VisibleBoxes(doc) : j <= i})

Fillable(doc) == (\E i \in 1..Len(doc) : CodeLike(doc[i])) \/ Cardinality(VisibleBoxes(doc)) >= 6

\* what one attempt leaves in a document it tried
Shape(doc, ok, mode) ==
    IF \E i \in 1..Len(doc) : CodeLike(doc[i])
    THEN /\ ok /\ mode = "single"
         /\ \E i \in 1..Len(doc) :
              Written(doc) = {i} /\ CodeLike(doc[i]) /\ doc[i].value = flCode
    ELSE IF Cardinality(VisibleBoxes(doc)) >= 6
    THEN /\ ok /\ mode = "split"
         /\ Written(doc) = {i \in VisibleBoxes(doc) : BoxRank(doc, i) <= 6}
         /\ \A i \in Written(doc) : doc[i].value = Digit(flCode, BoxRank(doc, i))
    ELSE ~ok /\ Written(doc) = {}

Untouched(frames) == \A k \in 1..Len(frames) : Written(frames[k].doc) = {}

\* C20: in a document the attempt tries, a visible code-like input (flagged
\* one-time-code, or with a name, id, aria-label or placeholder suggesting a
\* code) receives the whole code and nothing else is written; without one,
\* with at least 6 visible inputs of maxlength 1, exactly the first 6 of them
\* receive the digits of the code in order; otherwise the document is
\* reported as failed and nothing is written.  The top document is tried
\* first, a frame only after the top document failed, and at most one
\* document is written.
C20_FillAttempt ==
    flPc = "done" =>
      IF Fillable(flTop)
      THEN /\ Shape(flTop, flResult.ok, flResult.mode)
           /\ flResult.via = "top"
           /\ Untouched(flFrames)
      ELSE /\ Written(flTop) = {}
           /\ LET F == {k \in 1..Len(flFrames) :
                          flFrames[k].reachable /\ Fillable(flFrames[k].doc)}
              IN  IF F = {} THEN ~flResult.ok /\ Untouched(flFrames)
                  ELSE /\ flResult.via = "iframe"
                       /\ Shape(flFrames[FirstOf(F)].doc, flResult.ok, flResult.mode)
                       /\ \A k \in 1..Len(flFrames) :
                            k # FirstOf(F) => Written(flFrames[k].doc) = {}

C20_Witness ==
    /\ flPc = "done"
    /\ flCode = OtpCode
    /\ flResult.ok
    /\ flResult.mode = "split"
    /\ flResult.via = "top"
    /\ Len(flTop) = 8
    /\ ~flTop[1].visible
    /\ Written(flTop) = 2..7
    /\ flTop[7].value = <<"6">>
    /\ flTop[8] = IdVerify

(***************************************************************************)
(* select_random_option_in_nth_named_select, step by step  (bot.py         *)
(* 594-659): the options read from the target select, the candidates       *)
(* cleaned out of them, and the candidates tried in shuffled order.        *)
(***************************************************************************)
VARIABLES
    rdPc,               \* "idle", "read", "try" or "done"
    rdPresent,          \* the group holds a select at the index, and it has a name
    rdOptions,          \* sel.options: text and disabled flag, in document order
    rdExclude,          \* the exclude_texts argument
    rdOrder,            \* cleaned[:10] after the shuffle, as positions of cleaned
    rdTried,            \* candidates handed to select_option_by_text_safe
    rdChosen,           \* position in rdOptions of the option the last try selected, 0 for none
    rdResult            \* the value returned: None, a label, or Raised

rdVars == <<rdPc, rdPresent, rdOptions, rdExclude, rdOrder, rdTried, rdChosen, rdResult>>

\* line 654: cleaned[:10]
CandidateLimit == 10

MaxPlain == 11

Option(text, disabled) == [text |-> text, disabled |-> disabled]

PlainLetters == <<"a", "b", "c", "d", "e", "f", "g", "h", "i", "j", "k", "l", "m">>

\* n enabled options with n different labels
PlainOptions(n) == [i \in 1..n |-> Option(<<PlainLetters[i]>>, FALSE)]

\* options a select may hold besides: placeholders, a blank one, disabled ones,
\* a label chosen before, a label spelled with a run of spaces
SpecialOptions ==
    {<<>>,
     <<Option(<<"-", "-">>, FALSE), Option(<<>>, FALSE), Option(<<"S", "e", "l", "e", "c", "t">>, FALSE)>>,
     <<Option(<<"z">>, TRUE), Option(<<"a">>, TRUE)>>,
     <<Option(Basketball, FALSE), Option(<<" ", "B">>, FALSE)>>,
     <<Option(<<"t", " ", "f">>, TRUE), Option(<<"T", " ", " ", "F">>, FALSE)>>}

RdExcludes == {<<>>, <<Basketball, <<" ">>>>, <<<<" ", "B", " ">>, <<"a">>>>}

\* line 616: (o.textContent || '').replace(/\s+/g, ' ').trim(), then line 638
OptionText(option) == Trim(Collapse(option.text))

\* lines 637-647: the option at position j goes into cleaned
Keeps(options, exclude_texts, j) ==
    LET t == OptionText(options[j])
    IN  /\ t # <<>>
        /\ LowerSeq(t) \notin Placeholders
        /\ t \notin ExcludeSet(exclude_texts)
        /\ ~options[j].disabled

\* lines 636-648: cleaned, in document order
cleaned(options, exclude_texts) ==
    LET kept == SelectSeq([j \in 1..Len(options) |-> j],
                          LAMBDA j : Keeps(options, exclude_texts, j))
    IN  [k \in 1..Len(kept) |-> OptionText(options[kept[k]])]

\* the orders random.shuffle is taken to produce on a list of n items
ShuffleOrders(n) ==
    {[i \in 1..n |-> i], [i \in 1..n |-> n + 1 - i], [i \in 1..n |-> ((i + (n \div 2) - 1) % n) + 1]}

Texts(options) == [j \in 1..Len(options) |-> options[j].text]

RdInit ==
    /\ rdPc = "read"
    /\ rdPresent \in BOOLEAN
    /\ \E special \in SpecialOptions, n \in 0..MaxPlain :
         rdOptions \in {special \o PlainOptions(n), PlainOptions(n) \o special}
    /\ rdExclude \in RdExcludes
    /\ rdOrder = <<>>
    /\ rdTried = 0
    /\ rdChosen = 0
    /\ rdResult = None

RdIdle ==
    /\ rdPc = "idle"
    /\ rdPresent = FALSE
    /\ rdOptions = <<>>
    /\ rdExclude = <<>>
    /\ rdOrder = <<>>
    /\ rdTried = 0
    /\ rdChosen = 0
    /\ rdResult = None

\* lines 627-653: the select is read (sb.cdp.evaluate may raise), cleaned is built
\* and shuffled
RdRead ==
    /\ rdPc = "read"
    /\ \E raises \in BOOLEAN :
         LET list == cleaned(rdOptions, rdExclude)
         IN  IF raises
             THEN rdResult' = Raised /\ rdPc' = "done" /\ UNCHANGED rdOrder
             ELSE IF ~rdPresent \/ rdOptions = <<>> \/ list = <<>>
             THEN rdResult' = None /\ rdPc' = "done" /\ UNCHANGED rdOrder
             ELSE /\ \E order \in ShuffleOrders(Len(list)) :
                       rdOrder' = SubSeq(order, 1, Min({CandidateLimit, Len(list)}))
                  /\ rdPc' = "try"
                  /\ UNCHANGED rdResult
    /\ UNCHANGED <<rdPresent, rdOptions, rdExclude, rdTried, rdChosen>>

\* lines 654-656: the next candidate of cleaned[:10] goes to select_option_by_text_safe
RdTry ==
    /\ rdPc = "try"
    /\ rdTried < Len(rdOrder)
    /\ \E nativeMode \in NativeModes, jsMode \in JsModes :
         LET candidate == cleaned(rdOptions, rdExclude)[rdOrder[rdTried + 1]]
             r == SafeSelect(Texts(rdOptions), candidate, nativeMode, jsMode)
         IN  /\ rdTried' = rdTried + 1
             /\ rdChosen' = r.chosen
             /\ CASE r.result = "True" -> rdResult' = candidate /\ rdPc' = "done"
                  [] r.result = "raised" -> rdResult' = Raised /\ rdPc' = "done"
                  [] OTHER -> UNCHANGED <<rdResult, rdPc>>
    /\ UNCHANGED <<rdPresent, rdOptions, rdExclude, rdOrder>>

\* line 658: return None
RdGiveUp ==
    /\ rdPc = "try"
    /\ rdTried = Len(rdOrder)
    /\ rdResult' = None
    /\ rdPc' = "done"
    /\ UNCHANGED <<rdPresent, rdOptions, rdExclude, rdOrder, rdTried, rdChosen>>

\* what holds of the label alone: select_option_by_text_safe reported success
\* for it, it is the text of an enabled option outside the exclude set, and
\* the option selected reads the same up to case, whitespace and "&" / "and"
ReturnedLabelKept ==
    /\ rdTried <= CandidateLimit
    /\ (rdPc = "done" /\ rdResult \notin {None, Raised}) =>
         /\ rdPresent
         /\ rdChosen # 0
         /\ normalize(rdOptions[rdChosen].text) = normalize(rdResult)
         /\ rdResult # <<>>
         /\ LowerSeq(rdResult) \notin Placeholders
         /\ \A i \in 1..Len(rdExclude) : Trim(rdExclude[i]) # rdResult
         /\ \E j \in 1..Len(rdOptions) :
              OptionText(rdOptions[j]) = rdResult /\ ~rdOptions[j].disabled

\* C21: the call returns None or a label that was selected: the option
\* selected in the target select carries that label, is non-empty, no
\* placeholder, not disabled and not in the exclude set; at most 10
\* candidates are tried per call.
C21_SelectedOption ==
    /\ rdTried <= 10
    /\ (rdPc = "done" /\ rdResult \notin {None, Raised}) =>
         /\ rdChosen # 0
         /\ OptionText(rdOptions[rdChosen]) = rdResult
         /\ ~rdOptions[rdChosen].disabled
         /\ rdResult # <<>>
         /\ LowerSeq(rdResult) \notin Placeholders
         /\ \A i \in 1..Len(rdExclude) : Trim(rdExclude[i]) # rdResult

(***************************************************************************)
(* The dispatcher  (dispatch.py 46-54, 96-147): it reads the NEXT_ROW       *)
(* variable of the repository, sends a dispatch, counts down, and again.   *)
(* The variable is advanced by the workflow runs, outside the dispatcher.  *)
(***************************************************************************)
VARIABLES
    dpPc,               \* "idle", "validate", "read", "dispatch", "sleep", "exited"
    NEXT_ROW,           \* the repository variable
    total,              \* total data rows
    remaining,          \* max(0, total - next_row) of the last read that succeeded
    dispatch_count,
    dpSent,             \* dispatch requests that reached the API
    dpReads,            \* reads of NEXT_ROW made in the loop
    dpFresh,            \* what the read of the current iteration gave: "none", "ok", "failed"
    dpLeft,             \* seconds left of the countdown
    dpInterrupted,      \* a KeyboardInterrupt arrived
    dpExit              \* exit status of the process, -1 while it runs

dpVars == <<dpPc, NEXT_ROW, total, remaining, dispatch_count, dpSent, dpReads, dpFresh, dpLeft,
            dpInterrupted, dpExit>>

MaxTotal == 2

MaxDispatch == 3

\* seconds of the countdown between two dispatches
MaxInterval == 2

DpInit ==
    /\ dpPc = "validate"
    /\ total \in 0..MaxTotal
    /\ NEXT_ROW \in 0..(MaxTotal + 1)
    /\ remaining = 0
    /\ dispatch_count = 0
    /\ dpSent = 0
    /\ dpReads = 0
    /\ dpFresh = "none"
    /\ dpLeft = 0
    /\ dpInterrupted = FALSE
    /\ dpExit = -1

DpIdle ==
    /\ dpPc = "idle"
    /\ total = 0
    /\ NEXT_ROW = 0
    /\ remaining = 0
    /\ dispatch_count = 0
    /\ dpSent = 0
    /\ dpReads = 0
    /\ dpFresh = "none"
    /\ dpLeft = 0
    /\ dpInterrupted = FALSE
    /\ dpExit = -1

\* the outcomes of check_remaining: the pair is returned, None is returned
\* (status not 200, or a value int() rejects), or requests raises
ReadOutcomes == {"ok", "none", "raises"}

\* lines 103 and 121: remaining = max(0, total - next_row)
Remaining(rows, next_row) == IF rows - next_row > 0 THEN rows - next_row ELSE 0

DpEnds(status) ==
    /\ dpExit' = status
    /\ dpPc' = "exited"

\* lines 96-113: the first read; it must succeed and leave something to do
DpValidate ==
    /\ dpPc = "validate"
    /\ \E outcome \in ReadOutcomes :
         CASE outcome = "ok" ->
                /\ remaining' = Remaining(total, NEXT_ROW)
                /\ IF Remaining(total, NEXT_ROW) = 0 THEN DpEnds(0)
                   ELSE dpPc' = "read" /\ UNCHANGED dpExit
           [] OTHER -> DpEnds(1) /\ UNCHANGED remaining
    /\ UNCHANGED <<NEXT_ROW, total, dispatch_count, dpSent, dpReads, dpFresh, dpLeft,
                   dpInterrupted>>

StopsNever(fresh, left) == FALSE

\* lines 119-124: the loop stops when the read succeeded and nothing remains
Stops(fresh, left) == fresh = "ok" /\ left = 0

\* lines 118-124: the read at the head of an iteration
DpRead ==
    /\ dpPc = "read"
    /\ dpReads' = dpReads + 1
    /\ \E outcome \in ReadOutcomes :
         CASE outcome = "ok" ->
                /\ remaining' = Remaining(total, NEXT_ROW)
                /\ dpFresh' = "ok"
                /\ IF Stops("ok", Remaining(total, NEXT_ROW)) THEN DpEnds(0)
                   ELSE dpPc' = "dispatch" /\ UNCHANGED dpExit
           [] outcome = "none" ->
                /\ dpFresh' = "failed"
                /\ dpPc' = "dispatch"
                /\ UNCHANGED <<remaining, dpExit>>
           [] OTHER ->
                /\ dpFresh' = "failed"
                /\ DpEnds(1)
                /\ UNCHANGED remaining
    /\ UNCHANGED <<NEXT_ROW, total, dispatch_count, dpSent, dpLeft, dpInterrupted>>

\* lines 126-133: the dispatch is counted and sent; the API accepts it, refuses it,
\* or requests raises
DpDispatch ==
    /\ dpPc = "dispatch"
    /\ dispatch_count < MaxDispatch
    /\ dispatch_count' = dispatch_count + 1
    /\ \E outcome \in {"sent", "refused", "raises"} :
         /\ dpSent' = dpSent + (IF outcome = "raises" THEN 0 ELSE 1)
         /\ IF outcome = "raises" THEN DpEnds(1) /\ UNCHANGED dpLeft
            ELSE /\ dpPc' = "sleep"
                 /\ dpLeft' \in 1..MaxInterval
                 /\ UNCHANGED dpExit
    /\ UNCHANGED <<NEXT_ROW, total, remaining, dpReads, dpFresh, dpInterrupted>>

\* lines 135-141: one second of the countdown; at its end the next iteration
DpSleep ==
    /\ dpPc = "sleep"
    /\ dpLeft' = dpLeft - 1
    /\ IF dpLeft = 1 THEN dpPc' = "read" /\ dpFresh' = "none"
       ELSE UNCHANGED <<dpPc, dpFresh>>
    /\ UNCHANGED <<NEXT_ROW, total, remaining, dispatch_count, dpSent, dpReads, dpInterrupted,
                   dpExit>>

CaughtOutsideRead == {"dispatch", "sleep"}

\* lines 116-143: the try block holds the whole loop
Caught == {"read", "dispatch", "sleep"}

\* lines 143-145: KeyboardInterrupt during the read, the request or the countdown
\* is followed by sys.exit(0); a request under way may have been counted and may
\* have reached the API
DpInterrupt ==
    /\ dpPc \in {"read", "dispatch", "sleep"}
    /\ dpInterrupted' = TRUE
    /\ IF dpPc = "dispatch"
       THEN \E counted \in 0..1 : \E landed \in 0..counted :
              /\ dispatch_count' = dispatch_count + counted
              /\ dpSent' = dpSent + landed
       ELSE UNCHANGED <<dispatch_count, dpSent>>
    /\ dpReads' = dpReads + (IF dpPc = "read" THEN 1 ELSE 0)
    /\ DpEnds(IF dpPc \in Caught THEN 0 ELSE 1)
    /\ UNCHANGED <<NEXT_ROW, total, remaining, dpFresh, dpLeft>>

\* a workflow run, started by a dispatch that reached the API, advances the variable
DpWorkflow ==
    /\ dpPc \in {"read", "dispatch", "sleep"}
    /\ dpSent > 0
    /\ NEXT_ROW <= MaxTotal
    /\ NEXT_ROW' = NEXT_ROW + 1
    /\ UNCHANGED <<dpPc, total, remaining, dispatch_count, dpSent, dpReads, dpFresh, dpLeft,
                   dpInterrupted, dpExit>>

\* C22: a KeyboardInterrupt arriving during the read, the dispatch request or
\* the countdown ends the loop with exit status 0, and no dispatch is sent
\* after it.
C22_InterruptEndsLoop ==
    /\ [](dpInterrupted => dpPc = "exited" /\ dpExit = 0)
    /\ [][dpInterrupted' /\ ~dpInterrupted
            => dpPc \in {"read", "dispatch", "sleep"} /\ dpPc' = "exited" /\ dpExit' = 0]_dpVars
    /\ [][dpInterrupted => dpSent' = dpSent /\ dispatch_count' = dispatch_count
                             /\ dpReads' = dpReads]_dpVars

C22_Witness ==
    /\ dpInterrupted
    /\ dpPc = "exited"
    /\ dpExit = 0
    /\ dispatch_count = 2
    /\ dpSent = 1
    /\ dpLeft = 0
    /\ remaining = 1

\* C23: every dispatch follows a read of NEXT_ROW made in the same iteration;
\* no dispatch is sent in an iteration whose read succeeded and showed
\* next_row >= total, and the loop is then over for good; after a read that
\* failed the dispatch is still sent, with the remaining count of the last
\* read that succeeded; the dispatcher never writes NEXT_ROW.
C23_ReadBeforeDispatch ==
    /\ [](dispatch_count <= dpReads /\ dpSent <= dispatch_count)
    /\ [][dispatch_count' # dispatch_count
            => /\ dpPc = "dispatch"
               /\ dpFresh \in {"ok", "failed"}
               /\ dpFresh = "ok" => remaining > 0
               /\ remaining' = remaining]_dpVars
    /\ [][(dpPc = "read" /\ dpFresh' = "ok" /\ NEXT_ROW >= total)
            => dpPc' = "exited" /\ dpExit' = 0 /\ dpSent' = dpSent]_dpVars
    /\ [][(dpPc = "read" /\ dpFresh' = "failed" /\ dpPc' # "exited")
            => dpPc' = "dispatch" /\ remaining' = remaining]_dpVars
    /\ [][dpPc = "exited" => dpSent' = dpSent /\ dpPc' = "exited"]_dpVars
    /\ [][NEXT_ROW' # NEXT_ROW
            => UNCHANGED <<dpPc, total, remaining, dispatch_count, dpSent, dpReads, dpFresh,
                           dpLeft, dpExit>>]_dpVars

C23_Witness ==
    /\ dpPc = "sleep"
    /\ dpFresh = "failed"
    /\ dispatch_count = 2
    /\ dpSent = 2
    /\ remaining = 2
    /\ NEXT_ROW = 2
    /\ total = 2

(***************************************************************************)
(* Specifications: one per component, the other components idle.           *)
(***************************************************************************)
\* the components of the page interaction and of the run, and all of them at rest
ixVars == <<runVars, csvVars, mainVars, opVars, eoVars, flVars, rdVars, dpVars>>

IxIdle == RunIdle /\ CsvIdle /\ MainIdle /\ OpIdle /\ EoIdle /\ FlIdle /\ RdIdle /\ DpIdle

coreVars == <<otpVars, exVars, mtVars, pgVars, nthVars, spVars>>

CoreIdle == OtpIdle /\ ExIdle /\ MtIdle /\ PgIdle /\ NthIdle /\ SpIdle

vars == <<coreVars, ixVars>>

InitOtp == OtpInit /\ ExIdle /\ MtIdle /\ PgIdle /\ NthIdle /\ SpIdle /\ IxIdle

NextOtp ==
    \/ OtpLoopNext /\ UNCHANGED <<ixVars, exVars, mtVars, pgVars, nthVars, spVars>>
    \/ OtpLoopExit /\ UNCHANGED <<ixVars, exVars, mtVars, pgVars, nthVars, spVars>>
    \/ OtpLogin /\ UNCHANGED <<ixVars, exVars, mtVars, pgVars, nthVars, spVars>>
    \/ OtpLoginRaises /\ UNCHANGED <<ixVars, exVars, mtVars, pgVars, nthVars, spVars>>
    \/ OtpPass1 /\ UNCHANGED <<ixVars, exVars, mtVars, pgVars, nthVars, spVars>>
    \/ OtpPass2 /\ UNCHANGED <<ixVars, exVars, mtVars, pgVars, nthVars, spVars>>
    \/ OtpPass3 /\ UNCHANGED <<ixVars, exVars, mtVars, pgVars, nthVars, spVars>>
    \/ OtpSleep /\ UNCHANGED <<ixVars, exVars, mtVars, pgVars, nthVars, spVars>>
    \/ OtpImapError /\ UNCHANGED <<ixVars, exVars, mtVars, pgVars, nthVars, spVars>>

SpecOtp == InitOtp /\ [][NextOtp]_vars

InitExtract == ExInit /\ OtpIdle /\ MtIdle /\ PgIdle /\ NthIdle /\ SpIdle /\ IxIdle

NextExtract == ExtractCall /\ UNCHANGED <<ixVars, otpVars, mtVars, pgVars, nthVars, spVars>>

SpecExtract == InitExtract /\ [][NextExtract]_vars

InitMatch == MtInit /\ OtpIdle /\ ExIdle /\ PgIdle /\ NthIdle /\ SpIdle /\ IxIdle

NextMatch ==
    \/ MtAddOther /\ UNCHANGED <<ixVars, otpVars, exVars, pgVars, nthVars, spVars>>
    \/ MtAddGapVariant /\ UNCHANGED <<ixVars, otpVars, exVars, pgVars, nthVars, spVars>>
    \/ MtAddVariant /\ UNCHANGED <<ixVars, otpVars, exVars, pgVars, nthVars, spVars>>
    \/ MtSelect /\ UNCHANGED <<ixVars, otpVars, exVars, pgVars, nthVars, spVars>>

SpecMatch == InitMatch /\ [][NextMatch]_vars

InitNth == PgInit /\ NthInit /\ OtpIdle /\ ExIdle /\ MtIdle /\ SpIdle /\ IxIdle

NextNth ==
    \/ NthListRaises /\ UNCHANGED <<ixVars, otpVars, exVars, mtVars, spVars>>
    \/ NthPollSleep /\ UNCHANGED <<ixVars, otpVars, exVars, mtVars, spVars>>
    \/ NthPollAdd /\ UNCHANGED <<ixVars, otpVars, exVars, mtVars, spVars>>
    \/ NthPollSelect /\ UNCHANGED <<ixVars, otpVars, exVars, mtVars, spVars>>
    \/ NthGiveUp /\ UNCHANGED <<ixVars, otpVars, exVars, mtVars, spVars>>
    \/ nthPc = "poll" /\ PgRender /\ UNCHANGED <<ixVars, otpVars, exVars, mtVars, nthVars, spVars>>
    \/ nthPc = "poll" /\ PgShow /\ UNCHANGED <<ixVars, otpVars, exVars, mtVars, nthVars, spVars>>

SpecNth == InitNth /\ [][NextNth]_vars

\* the sport loop on a page that renders a visible select at once for every click
\* that lands
InitSports == SpInit /\ NthIdle /\ OtpIdle /\ ExIdle /\ MtIdle /\ IxIdle

NextSports ==
    \/ SpCallPrimary /\ UNCHANGED <<ixVars, otpVars, exVars, mtVars>>
    \/ SpAfterPrimary /\ UNCHANGED <<ixVars, otpVars, exVars, mtVars>>
    \/ SpLoopEnd /\ UNCHANGED <<ixVars, otpVars, exVars, mtVars>>
    \/ NthListRaises /\ UNCHANGED <<ixVars, otpVars, exVars, mtVars, spVars>>
    \/ NthPollSleep /\ pgIdeal' /\ UNCHANGED <<ixVars, otpVars, exVars, mtVars, spVars>>
    \/ NthPollAdd /\ pgIdeal' /\ UNCHANGED <<ixVars, otpVars, exVars, mtVars, spVars>>
    \/ NthPollSelect /\ UNCHANGED <<ixVars, otpVars, exVars, mtVars, spVars>>
    \/ NthGiveUp /\ UNCHANGED <<ixVars, otpVars, exVars, mtVars, spVars>>

SpecSports == InitSports /\ [][NextSports]_vars

InitRun == RunInit /\ CoreIdle /\ CsvIdle /\ MainIdle /\ OpIdle /\ EoIdle /\ FlIdle /\ RdIdle /\ DpIdle

NextRun ==
    \/ RunCreate /\ UNCHANGED <<coreVars, csvVars, mainVars, opVars, eoVars, flVars, rdVars, dpVars>>
    \/ RunEnter /\ UNCHANGED <<coreVars, csvVars, mainVars, opVars, eoVars, flVars, rdVars, dpVars>>
    \/ RunSetup /\ UNCHANGED <<coreVars, csvVars, mainVars, opVars, eoVars, flVars, rdVars, dpVars>>
    \/ RunNavigate /\ UNCHANGED <<coreVars, csvVars, mainVars, opVars, eoVars, flVars, rdVars, dpVars>>
    \/ RunForm /\ UNCHANGED <<coreVars, csvVars, mainVars, opVars, eoVars, flVars, rdVars, dpVars>>
    \/ RunWait /\ UNCHANGED <<coreVars, csvVars, mainVars, opVars, eoVars, flVars, rdVars, dpVars>>
    \/ RunCredentials /\ UNCHANGED <<coreVars, csvVars, mainVars, opVars, eoVars, flVars, rdVars, dpVars>>
    \/ RunGetOtp /\ UNCHANGED <<coreVars, csvVars, mainVars, opVars, eoVars, flVars, rdVars, dpVars>>
    \/ RunEnterOtp /\ UNCHANGED <<coreVars, csvVars, mainVars, opVars, eoVars, flVars, rdVars, dpVars>>
    \/ RunVerify /\ UNCHANGED <<coreVars, csvVars, mainVars, opVars, eoVars, flVars, rdVars, dpVars>>
    \/ RunProfile /\ UNCHANGED <<coreVars, csvVars, mainVars, opVars, eoVars, flVars, rdVars, dpVars>>
    \/ RunSports /\ UNCHANGED <<coreVars, csvVars, mainVars, opVars, eoVars, flVars, rdVars, dpVars>>
    \/ RunTeams /\ UNCHANGED <<coreVars, csvVars, mainVars, opVars, eoVars, flVars, rdVars, dpVars>>
    \/ RunSave /\ UNCHANGED <<coreVars, csvVars, mainVars, opVars, eoVars, flVars, rdVars, dpVars>>
    \/ RunFinalUrl /\ UNCHANGED <<coreVars, csvVars, mainVars, opVars, eoVars, flVars, rdVars, dpVars>>
    \/ RunReport /\ UNCHANGED <<coreVars, csvVars, mainVars, opVars, eoVars, flVars, rdVars, dpVars>>
    \/ RunExcept /\ UNCHANGED <<coreVars, csvVars, mainVars, opVars, eoVars, flVars, rdVars, dpVars>>

SpecRun == InitRun /\ [][NextRun]_vars

InitCsv == CsvInit /\ CoreIdle /\ RunIdle /\ MainIdle /\ OpIdle /\ EoIdle /\ FlIdle /\ RdIdle /\ DpIdle

NextCsv ==
    \/ LoadRow /\ UNCHANGED <<coreVars, runVars, mainVars, opVars, eoVars, flVars, rdVars, dpVars>>

SpecCsv == InitCsv /\ [][NextCsv]_vars

InitMain == MainInit /\ RunIdle /\ CoreIdle /\ OpIdle /\ EoIdle /\ FlIdle /\ RdIdle /\ DpIdle

NextMain ==
    \/ MainParse /\ UNCHANGED <<coreVars, opVars, eoVars, flVars, rdVars, dpVars>>
    \/ MainRowMode /\ UNCHANGED <<coreVars, opVars, eoVars, flVars, rdVars, dpVars>>
    \/ MainDirectMode /\ UNCHANGED <<coreVars, opVars, eoVars, flVars, rdVars, dpVars>>
    \/ MainUsage /\ UNCHANGED <<coreVars, opVars, eoVars, flVars, rdVars, dpVars>>
    \/ MainCallRun /\ UNCHANGED <<coreVars, opVars, eoVars, flVars, rdVars, dpVars>>
    \/ MainExit /\ UNCHANGED <<coreVars, opVars, eoVars, flVars, rdVars, dpVars>>
    \/ RunCreate /\ UNCHANGED <<coreVars, csvVars, mainVars, opVars, eoVars, flVars, rdVars, dpVars>>
    \/ RunEnter /\ UNCHANGED <<coreVars, csvVars, mainVars, opVars, eoVars, flVars, rdVars, dpVars>>
    \/ RunSetup /\ UNCHANGED <<coreVars, csvVars, mainVars, opVars, eoVars, flVars, rdVars, dpVars>>
    \/ RunNavigate /\ UNCHANGED <<coreVars, csvVars, mainVars, opVars, eoVars, flVars, rdVars, dpVars>>
    \/ RunForm /\ UNCHANGED <<coreVars, csvVars, mainVars, opVars, eoVars, flVars, rdVars, dpVars>>
    \/ RunWait /\ UNCHANGED <<coreVars, csvVars, mainVars, opVars, eoVars, flVars, rdVars, dpVars>>
    \/ RunCredentials /\ UNCHANGED <<coreVars, csvVars, mainVars, opVars, eoVars, flVars, rdVars, dpVars>>
    \/ RunGetOtp /\ UNCHANGED <<coreVars, csvVars, mainVars, opVars, eoVars, flVars, rdVars, dpVars>>
    \/ RunEnterOtp /\ UNCHANGED <<coreVars, csvVars, mainVars, opVars, eoVars, flVars, rdVars, dpVars>>
    \/ RunVerify /\ UNCHANGED <<coreVars, csvVars, mainVars, opVars, eoVars, flVars, rdVars, dpVars>>
    \/ RunProfile /\ UNCHANGED <<coreVars, csvVars, mainVars, opVars, eoVars, flVars, rdVars, dpVars>>
    \/ RunSports /\ UNCHANGED <<coreVars, csvVars, mainVars, opVars, eoVars, flVars, rdVars, dpVars>>
    \/ RunTeams /\ UNCHANGED <<coreVars, csvVars, mainVars, opVars, eoVars, flVars, rdVars, dpVars>>
    \/ RunSave /\ UNCHANGED <<coreVars, csvVars, mainVars, opVars, eoVars, flVars, rdVars, dpVars>>
    \/ RunFinalUrl /\ UNCHANGED <<coreVars, csvVars, mainVars, opVars, eoVars, flVars, rdVars, dpVars>>
    \/ RunReport /\ UNCHANGED <<coreVars, csvVars, mainVars, opVars, eoVars, flVars, rdVars, dpVars>>
    \/ RunExcept /\ UNCHANGED <<coreVars, csvVars, mainVars, opVars, eoVars, flVars, rdVars, dpVars>>

SpecMain == InitMain /\ [][NextMain]_vars

InitForm == OpInit /\ CoreIdle /\ RunIdle /\ CsvIdle /\ MainIdle /\ EoIdle /\ FlIdle /\ RdIdle /\ DpIdle

NextForm ==
    \/ ClickNative /\ UNCHANGED <<coreVars, runVars, csvVars, mainVars, eoVars, flVars, rdVars, dpVars>>
    \/ ClickDirect /\ UNCHANGED <<coreVars, runVars, csvVars, mainVars, eoVars, flVars, rdVars, dpVars>>
    \/ StrictNative /\ UNCHANGED <<coreVars, runVars, csvVars, mainVars, eoVars, flVars, rdVars, dpVars>>
    \/ SafeNative /\ UNCHANGED <<coreVars, runVars, csvVars, mainVars, eoVars, flVars, rdVars, dpVars>>
    \/ SelectScript /\ UNCHANGED <<coreVars, runVars, csvVars, mainVars, eoVars, flVars, rdVars, dpVars>>
    \/ TypeScript /\ UNCHANGED <<coreVars, runVars, csvVars, mainVars, eoVars, flVars, rdVars, dpVars>>
    \/ TypeNative /\ UNCHANGED <<coreVars, runVars, csvVars, mainVars, eoVars, flVars, rdVars, dpVars>>
    \/ TypeDirect /\ UNCHANGED <<coreVars, runVars, csvVars, mainVars, eoVars, flVars, rdVars, dpVars>>

SpecForm == InitForm /\ [][NextForm]_vars

InitEnter == EoInit /\ CoreIdle /\ RunIdle /\ CsvIdle /\ MainIdle /\ OpIdle /\ FlIdle /\ RdIdle /\ DpIdle

NextEnter ==
    \/ EoStart /\ UNCHANGED <<coreVars, runVars, csvVars, mainVars, opVars, flVars, rdVars, dpVars>>
    \/ EoCheck /\ UNCHANGED <<coreVars, runVars, csvVars, mainVars, opVars, flVars, rdVars, dpVars>>
    \/ EoAttempt /\ UNCHANGED <<coreVars, runVars, csvVars, mainVars, opVars, flVars, rdVars, dpVars>>
    \/ EoPause /\ UNCHANGED <<coreVars, runVars, csvVars, mainVars, opVars, flVars, rdVars, dpVars>>
    \/ EoDiagnose /\ UNCHANGED <<coreVars, runVars, csvVars, mainVars, opVars, flVars, rdVars, dpVars>>

SpecEnter == InitEnter /\ [][NextEnter]_vars

InitFill == FlInit /\ CoreIdle /\ RunIdle /\ CsvIdle /\ MainIdle /\ OpIdle /\ EoIdle /\ RdIdle /\ DpIdle

NextFill ==
    \/ FlTop /\ UNCHANGED <<coreVars, runVars, csvVars, mainVars, opVars, eoVars, rdVars, dpVars>>
    \/ FlFrame /\ UNCHANGED <<coreVars, runVars, csvVars, mainVars, opVars, eoVars, rdVars, dpVars>>
    \/ FlReturn /\ UNCHANGED <<coreVars, runVars, csvVars, mainVars, opVars, eoVars, rdVars, dpVars>>

SpecFill == InitFill /\ [][NextFill]_vars

InitRandom == RdInit /\ CoreIdle /\ RunIdle /\ CsvIdle /\ MainIdle /\ OpIdle /\ EoIdle /\ FlIdle /\ DpIdle

NextRandom ==
    \/ RdRead /\ UNCHANGED <<coreVars, runVars, csvVars, mainVars, opVars, eoVars, flVars, dpVars>>
    \/ RdTry /\ UNCHANGED <<coreVars, runVars, csvVars, mainVars, opVars, eoVars, flVars, dpVars>>
    \/ RdGiveUp /\ UNCHANGED <<coreVars, runVars, csvVars, mainVars, opVars, eoVars, flVars, dpVars>>

SpecRandom == InitRandom /\ [][NextRandom]_vars

InitDispatch == DpInit /\ CoreIdle /\ RunIdle /\ CsvIdle /\ MainIdle /\ OpIdle /\ EoIdle /\ FlIdle /\ RdIdle

NextDispatch ==
    \/ DpValidate /\ UNCHANGED <<coreVars, runVars, csvVars, mainVars, opVars, eoVars, flVars, rdVars>>
    \/ DpRead /\ UNCHANGED <<coreVars, runVars, csvVars, mainVars, opVars, eoVars, flVars, rdVars>>
    \/ DpDispatch /\ UNCHANGED <<coreVars, runVars, csvVars, mainVars, opVars, eoVars, flVars, rdVars>>
    \/ DpSleep /\ UNCHANGED <<coreVars, runVars, csvVars, mainVars, opVars, eoVars, flVars, rdVars>>
    \/ DpInterrupt /\ UNCHANGED <<coreVars, runVars, csvVars, mainVars, opVars, eoVars, flVars, rdVars>>
    \/ DpWorkflow /\ UNCHANGED <<coreVars, runVars, csvVars, mainVars, opVars, eoVars, flVars, rdVars>>

SpecDispatch == InitDispatch /\ [][NextDispatch]_vars

====
